---- MODULE Spec2Model ----
(***************************************************************************)
(* Navigation and scroll restoration of reactolith:                        *)
(*   src/src/ScrollRestoration.ts  (class ScrollRestoration)               *)
(*   src/src/Router.ts             (class Router, lines 461-711)           *)
(*   src/src/App.ts                (App.render)                            *)
(*                                                                         *)
(* The browser is the environment: the session history (entries with a     *)
(* URL and a state object, and the index of the current entry), the window *)
(* and element scroll offsets, the ids present in the live document, and   *)
(* sessionStorage.  Strings that the code slices (URLs) are sequences of   *)
(* characters, "#" being the fragment separator.                           *)
(***************************************************************************)
EXTENDS Integers, Sequences, FiniteSets, TLC

VARIABLES
  constructed,     \* TRUE once new Router(...) / new ScrollRestoration(...) ran
  nativeRestore,   \* history.scrollRestoration: "auto" | "manual"
  history,         \* session history: sequence of [url, state, eid]
  idx,             \* index of the browser's current entry in history
  nextEid,         \* browser-side identity given to the next entry created
  positions,       \* ScrollRestoration.positions: Map<string, ScrollPosition>
  currentId,       \* ScrollRestoration.currentId
  nextId,          \* the next id generateId() hands out
  scrollElement,   \* ScrollRestoration.scrollElement: TRUE = an element, FALSE = null
  winPos,          \* window.scrollX / scrollY
  elPos,           \* scrollElement.scrollLeft / scrollTop
  docIds,          \* ids document.getElementById finds in the live document
  storage,         \* sessionStorage item under STORAGE_KEY
  inflight,        \* visits suspended at an await
  nVisits,         \* number of visits started so far
  effects,         \* calls made by the handler that ran last, in order
  leftAt,          \* per browser entry: offset of the scroll region when it was last left
  nLoads,          \* number of times the page was loaded again
  listeners,       \* Router.listeners: per event type, the handlers in insertion order
  returned,        \* the unsubscribe functions on() has returned, as <<type, handler>>
  mountRoot,       \* the DOM around the mount element: its attribute and its ancestors
  container,       \* which element scrollElement is: NoElement = null
  event,           \* the DOM event the document is about to dispatch
  loading,         \* RouterProvider: the state set by setLoading
  mercure          \* Mercure: eventSource, currentUrl, and every EventSource made

vars == <<constructed, nativeRestore, history, idx, nextEid, positions, currentId,
          nextId, scrollElement, winPos, elPos, docIds, storage, inflight,
          nVisits, effects, leftAt, nLoads, listeners, returned, mountRoot, container,
          event, loading, mercure>>

----------------------------------------------------------------------------
(* Bounds *)

MaxVisits == 2
MaxInFlight == 2
MaxSeqVisits == 3
MaxEnvVisits == 2
MaxLoads == 1
MaxDepth == 2
MaxDomVisits == 1
MaxEventVisits == 1
MaxSubscriptions == 2
MaxHttpVisits == 2
MaxAppVisits == 2
MaxOverlapVisits == 3
MaxSources == 3

----------------------------------------------------------------------------
(* Values *)

Pos(x, y) == [x |-> x, y |-> y]

\* Offsets the user (or scrollIntoView) can leave a scroll region at.
Offsets == {Pos(0, 0), Pos(1, 2)}

\* URLs: "/a" and "/b#s"; the server redirects to "/a".
UrlA == <<"a">>
UrlBS == <<"b", "#", "s">>
Urls == {UrlA, UrlBS}

\* The one element id pages may contain.
IdS == <<"s">>

ScrollOptions == {"top", "preserve", "undefined"}

\* history.state values: null, or an object (a function from field names).
Null == [null |-> TRUE, obj |-> <<>>]
Obj(f) == [null |-> FALSE, obj |-> f]

\* {...state}: the own fields of state, none for null.
Spread(state) == IF state.null THEN <<>> ELSE state.obj

\* state?.restorationId is not undefined/null
HasRestorationId(state) == ~state.null /\ "restorationId" \in DOMAIN state.obj

\* One call observed during a handler: what was called, a string argument,
\* coordinates and a URL (each left empty where the call has none).
\* The element handed in as scroll element; NoElement stands for null
NoElement == "null"
Scroller == "main"

\* keyof RouterEventMap, and the functions a caller may subscribe
EventTypes == {"nav:started", "nav:ended", "render:success", "render:failed"}
Handlers == {"h1", "h2"}
NoListeners == [t \in EventTypes |-> <<>>]

\* RequestInit: GET without a body is what every caller but onSubmit passes
RequestInit(method, body) == [method |-> method, body |-> body]
GetInit == RequestInit("GET", Null)
NoEvent == [type |-> "none"]

\* An attribute: absent (getAttribute gives null), or present with a value
Absent == [has |-> FALSE, v |-> <<>>]
Present(v) == [has |-> TRUE, v |-> v]

\* The element an event is about: the link closest("a") finds (tag "none"
\* when there is none) or the form; attr is its href or action attribute
El(tag, attr, target, download, rel, scroll, method, fields) ==
  [tag |-> tag, attr |-> attr, target |-> target, download |-> download, rel |-> rel,
   scroll |-> scroll, method |-> method, fields |-> fields]
Link(href, target, download, rel, scroll) ==
  El("a", href, target, download, rel, scroll, "", <<>>)
Form(action, target, method, fields, scroll) ==
  El("form", action, target, FALSE, <<>>, scroll, method, fields)
Field(name, value, file) == [name |-> name, value |-> value, file |-> file]

\* The control that submitted a form: none, a button element or an input element
Submitter(kind, name, value) == [kind |-> kind, name |-> name, value |-> value]
NoSubmitter == Submitter("none", <<>>, <<>>)

\* A MouseEvent or SubmitEvent
Mouse(defaultPrevented, button, metaKey, ctrlKey, shiftKey, altKey) ==
  [defaultPrevented |-> defaultPrevented, button |-> button, metaKey |-> metaKey,
   ctrlKey |-> ctrlKey, shiftKey |-> shiftKey, altKey |-> altKey]
PlainMouse == Mouse(FALSE, 0, FALSE, FALSE, FALSE, FALSE)
DomEvent(type, m, el, submitter) ==
  [type |-> type, defaultPrevented |-> m.defaultPrevented, button |-> m.button,
   metaKey |-> m.metaKey, ctrlKey |-> m.ctrlKey, shiftKey |-> m.shiftKey,
   altKey |-> m.altKey, el |-> el, submitter |-> submitter]

\* A plain click on a link to a relative URL, and the submit of a GET form without fields
Click(href, dataScroll) ==
  DomEvent("click", PlainMouse, Link(Present(href), "", FALSE, <<>>, dataScroll), NoSubmitter)
Submit(action, dataScroll) ==
  DomEvent("submit", PlainMouse, Form(Present(action), "", "get", <<>>, dataScroll),
           NoSubmitter)
\* A Mercure instance after its constructor: eventSource and currentUrl are
\* null (0 and the empty string stand for null); sources are the EventSource
\* objects made so far, each with its readyState and the number of
\* sse:disconnected events emitted while it was the one held
NoMercure == [eventSource |-> 0, currentUrl |-> <<>>, sources |-> <<>>]

PlainRoot == [hasAttr |-> FALSE, selected |-> NoElement, ancestors |-> <<>>, view |-> TRUE]

Call(op, arg, x, y, url) == [op |-> op, arg |-> arg, x |-> x, y |-> y, url |-> url]
Did(op) == Call(op, "", 0, 0, <<>>)
Emit(type, url) == Call("emit", type, 0, 0, url)

----------------------------------------------------------------------------
(* Browser history API *)

\* history.state
HistoryState == history[idx].state

\* history.replaceState(state, ""): same entry, same URL, new state.
replaceState(h, i, state) == [h EXCEPT ![i].state = state]

\* history.pushState(state, "", url): drop the entries after the current one,
\* append a new entry and make it current.
pushState(h, i, state, url, eid) ==
  Append(SubSeq(h, 1, i), [url |-> url, state |-> state, eid |-> eid])

\* url.indexOf("#"), 0 when absent (positions are 1-based here)
indexOfHash(url) ==
  IF \E i \in 1..Len(url) : url[i] = "#"
  THEN CHOOSE i \in 1..Len(url) : url[i] = "#" /\ \A j \in 1..(i - 1) : url[j] # "#"
  ELSE 0

\* location.pathname + location.search of an entry URL: the URL without its fragment
pathAndSearch(url) ==
  IF indexOfHash(url) = 0 THEN url ELSE SubSeq(url, 1, indexOfHash(url) - 1)

----------------------------------------------------------------------------
(* ScrollRestoration *)

\* private extractHash(url)
extractHash(url) ==
  IF indexOfHash(url) = 0 THEN <<>> ELSE SubSeq(url, indexOfHash(url) + 1, Len(url))

\* private getPosition(): the calls it makes and the offset it reads
getPositionCalls(el) ==
  IF el THEN <<Call("read", "element", 0, 0, <<>>)>>
  ELSE <<Call("read", "window", 0, 0, <<>>)>>
getPosition(el, win, elp) == IF el THEN elp ELSE win

\* Mutant: doScroll() that scrolls the window whatever the scroll element is
doScroll_window(el, x, y) == <<Call("scrollTo", "window", x, y, <<>>)>>

\* private doScroll(x, y)
doScroll(el, x, y) ==
  IF el THEN <<Call("scrollTo", "element", x, y, <<>>)>>
  ELSE <<Call("scrollTo", "window", x, y, <<>>)>>

\* Mutant: save() that starts the table afresh
save_replaces(pos, cur, el, win, elp) == cur :> getPosition(el, win, elp)

\* save(): positions.set(currentId, getPosition())
save(pos, cur, el, win, elp) ==
  [k \in DOMAIN pos \cup {cur} |-> IF k = cur THEN getPosition(el, win, elp) ELSE pos[k]]

\* Mutant: generateId() that returns the same id on every call
generateId_repeats(next) == 1

\* generateId(): Math.random().toString(36).slice(2), taken as an id no entry
\* of the session carries yet
generateId(next) == next

\* Mutant: push() that hands out the current id again
push_reusesCurrent(cur, next) == [currentId |-> cur, state |-> Obj("restorationId" :> cur)]

\* push(): currentId = generateId(); return { restorationId: currentId }
push(cur, next) ==
  [currentId |-> generateId(next), state |-> Obj("restorationId" :> generateId(next))]

\* Mutant: pop() that does not read history.state
pop_keepsCurrent(state, cur) == cur

\* Mutant: pop() without the fallback to the current id
pop_forgetsCurrent(state, cur) ==
  IF HasRestorationId(state) THEN state.obj["restorationId"] ELSE -1

\* pop(): currentId = history.state?.restorationId ?? currentId
pop(state, cur) ==
  IF HasRestorationId(state) THEN state.obj["restorationId"] ELSE cur

\* Mutant: a push scrolls to the top whatever the intent
scroll_ignoresPreserve(isPush, behavior, url, cur, pos, ids, el) ==
  LET hash == extractHash(url) IN
  IF hash # <<>> /\ hash \in ids
  THEN <<Call("scrollIntoView", "target", 0, 0, <<>>)>>
  ELSE IF ~isPush
       THEN (IF cur \in DOMAIN pos THEN doScroll(el, pos[cur].x, pos[cur].y) ELSE <<>>)
       ELSE doScroll(el, 0, 0)

\* Mutant: a pop without a saved offset scrolls to the top
scroll_popFallsBackToTop(isPush, behavior, url, cur, pos, ids, el) ==
  LET hash == extractHash(url) IN
  IF hash # <<>> /\ hash \in ids
  THEN <<Call("scrollIntoView", "target", 0, 0, <<>>)>>
  ELSE IF ~isPush
       THEN (IF cur \in DOMAIN pos THEN doScroll(el, pos[cur].x, pos[cur].y)
             ELSE doScroll(el, 0, 0))
       ELSE IF behavior = "preserve" THEN <<>> ELSE doScroll(el, 0, 0)

\* Mutant: the default push does not scroll
scroll_neverTop(isPush, behavior, url, cur, pos, ids, el) ==
  LET hash == extractHash(url) IN
  IF hash # <<>> /\ hash \in ids
  THEN <<Call("scrollIntoView", "target", 0, 0, <<>>)>>
  ELSE IF ~isPush /\ cur \in DOMAIN pos THEN doScroll(el, pos[cur].x, pos[cur].y)
       ELSE <<>>

\* Mutant: the saved offset of a pop is restored before the fragment is looked at
scroll_popFirst(isPush, behavior, url, cur, pos, ids, el) ==
  LET hash == extractHash(url) IN
  IF ~isPush /\ cur \in DOMAIN pos THEN doScroll(el, pos[cur].x, pos[cur].y)
  ELSE IF hash # <<>> /\ hash \in ids
       THEN <<Call("scrollIntoView", "target", 0, 0, <<>>)>>
       ELSE IF ~isPush \/ behavior = "preserve" THEN <<>>
            ELSE doScroll(el, 0, 0)

\* Mutant: a pop that reads the intent as a push does
scroll_popReadsIntent(isPush, behavior, url, cur, pos, ids, el) ==
  LET hash == extractHash(url) IN
  IF hash # <<>> /\ hash \in ids
  THEN <<Call("scrollIntoView", "target", 0, 0, <<>>)>>
  ELSE IF behavior = "preserve" THEN <<>>
       ELSE IF behavior = "top" \/ isPush THEN doScroll(el, 0, 0)
       ELSE IF cur \in DOMAIN pos THEN doScroll(el, pos[cur].x, pos[cur].y) ELSE <<>>

\* Mutant: a fragment whose element is missing ends scroll()
scroll_returnsOnMissing(isPush, behavior, url, cur, pos, ids, el) ==
  LET hash == extractHash(url) IN
  IF hash # <<>>
  THEN IF hash \in ids THEN <<Call("scrollIntoView", "target", 0, 0, <<>>)>> ELSE <<>>
  ELSE IF ~isPush
       THEN IF cur \in DOMAIN pos THEN doScroll(el, pos[cur].x, pos[cur].y) ELSE <<>>
       ELSE IF behavior = "preserve" THEN <<>>
            ELSE doScroll(el, 0, 0)

\* scroll(isPush, behavior, url): the scroll calls it makes, given the current
\* id cur, the table pos and the ids in the document
scroll(isPush, behavior, url, cur, pos, ids, el) ==
  LET hash == extractHash(url) IN
  IF hash # <<>> /\ hash \in ids
  THEN <<Call("scrollIntoView", "target", 0, 0, <<>>)>>
  ELSE IF ~isPush
       THEN IF cur \in DOMAIN pos THEN doScroll(el, pos[cur].x, pos[cur].y) ELSE <<>>
       ELSE IF behavior = "preserve" THEN <<>>
            ELSE doScroll(el, 0, 0)

\* The string stored under STORAGE_KEY, by what JSON.parse makes of it:
\* present = getItem returns a non-empty string, valid = JSON.parse returns,
\* list = the value parsed is an array, raw = its elements; blocked = access to
\* sessionStorage throws.  An element is a pair [key, pos] or (pair = FALSE)
\* a value that cannot be destructured, such as a number.
Item(blocked, present, valid, list, raw) ==
  [blocked |-> blocked, present |-> present, valid |-> valid, list |-> list, raw |-> raw]
Entry(key, pos) == [pair |-> TRUE, key |-> key, pos |-> pos]
NotAPair == [pair |-> FALSE, key |-> 0, pos |-> Pos(0, 0)]

\* hydrate(): for (const [key, pos] of entries) positions.set(key, pos); the
\* loop ends at the first element that cannot be destructured, which throws
RECURSIVE setAll(_, _)
setAll(pos, entries) ==
  IF entries = <<>> THEN pos
  ELSE LET e == Head(entries) IN
       IF ~e.pair THEN pos
       ELSE setAll([k \in DOMAIN pos \cup {e.key} |-> IF k = e.key THEN e.pos ELSE pos[k]],
                   Tail(entries))

\* hydrate(): what its try block throws on
hydrateError(item) ==
  \/ item.blocked
  \/ item.present /\ ~item.valid
  \/ item.present /\ item.valid /\ ~item.list
  \/ item.present /\ item.valid /\ item.list /\ \E i \in 1..Len(item.raw) : ~item.raw[i].pair

\* Mutant: hydrate() without its catch
hydrateEscapes_uncaught(item) == hydrateError(item)

\* hydrate(): catch {} lets no exception out
hydrateEscapes(item) == FALSE

\* Mutant: hydrate() that reads nothing
hydrate_readsNothing(pos, item) == pos

hydrate(pos, item) ==
  IF item.blocked \/ ~item.present \/ ~item.valid \/ ~item.list THEN pos
  ELSE setAll(pos, item.raw)

\* Array.from(positions.entries()): the keys of a Map are distinct, so the order
\* of its entries makes no difference to a table read back; taken by key
RECURSIVE entriesOf(_)
entriesOf(pos) ==
  IF DOMAIN pos = {} THEN <<>>
  ELSE LET k == CHOOSE m \in DOMAIN pos : \A n \in DOMAIN pos : m <= n
       IN  <<Entry(k, pos[k])>> \o entriesOf([n \in DOMAIN pos \ {k} |-> pos[n]])

\* JSON.stringify(entries) as sessionStorage keeps it
stringify(item, entries) == Item(item.blocked, TRUE, TRUE, TRUE, entries)

\* Mutant: persist() that writes the table without the save() before
persistTable_withoutSave(pos, saved) == pos

\* persist(): this.save() first, then the entries of the table
persistTable(pos, saved) == saved

\* Mutant: persist() without its catch
persistEscapes_uncaught(geoOk, writeOk) == ~geoOk \/ ~writeOk

\* persist(): catch {} lets no exception out
persistEscapes(geoOk, writeOk) == FALSE

\* Offset of a scroll region after the scroll calls of one handler; a
\* scrollIntoView leaves the region at the offset `at` of the target element.
regionAfter(calls, region, p, at, el) ==
  IF calls = <<>> THEN p
  ELSE LET c == calls[Len(calls)] IN
       IF c.op = "scrollTo" /\ c.arg = region THEN Pos(c.x, c.y)
       ELSE IF c.op = "scrollIntoView" /\ (region = "window") = ~el THEN at
       ELSE p

----------------------------------------------------------------------------
(* App.render and the server *)

\* Response bodies: without the mount element, or with it.
Htmls == {[root |-> FALSE], [root |-> TRUE]}

\* What the live document can hold: nothing of interest, or the element "s".
Documents == {{}, {IdS}}

\* App.render(html): false when the selector finds no root element in the markup
render(html) == html.root

\* fetch outcomes for a request: not redirected (response.url is the request
\* URL, which carries no fragment), or redirected to "/a" when another URL
\* was requested; with status 200 (response.ok) or 404
Response(redirected, url, status) ==
  [redirected |-> redirected, url |-> url, status |-> status]
WithStatus(input, status) ==
  {Response(FALSE, pathAndSearch(input), status)}
    \cup {Response(TRUE, UrlA, status) : x \in {pathAndSearch(input)} \ {UrlA}}
Responses(input) == WithStatus(input, 200)
AnyResponses(input) == WithStatus(input, 200) \cup WithStatus(input, 404)

----------------------------------------------------------------------------
(* Initial state: a page has loaded, new App(...) has not run yet *)

\* history.state and the sessionStorage item the page starts with: a first load
\* (state null or the host's {foo: 7}), or a reload of an entry that has an id
\* from the earlier load, with or without the table that load stored.
NoItem == Item(FALSE, FALSE, FALSE, FALSE, <<>>)
OldItem == Item(FALSE, TRUE, TRUE, TRUE, <<Entry(0, Pos(1, 2))>>)
InitPages ==
  {<<Null, NoItem>>, <<Obj("foo" :> 7), OldItem>>,
   <<Obj("restorationId" :> 0), OldItem>>,
   <<Obj(("restorationId" :> 0) @@ ("foo" :> 7)), NoItem>>}

Init ==
  /\ constructed = FALSE
  /\ nativeRestore = "auto"
  /\ \E pg \in InitPages :
       /\ history = <<[url |-> UrlA, state |-> pg[1], eid |-> 1]>>
       /\ storage = pg[2]
  /\ idx = 1
  /\ nextEid = 2
  /\ positions = <<>>
  /\ currentId = 0
  /\ nextId = 1
  /\ scrollElement = FALSE
  /\ winPos = Pos(0, 0)
  /\ elPos = Pos(0, 0)
  /\ docIds = {}
  /\ inflight = {}
  /\ nVisits = 0
  /\ effects = <<>>
  /\ leftAt = <<>>
  /\ nLoads = 0
  /\ listeners = NoListeners
  /\ returned = {}
  /\ mountRoot = PlainRoot
  /\ container = NoElement
  /\ event = NoEvent
  /\ loading = FALSE
  /\ mercure = NoMercure

----------------------------------------------------------------------------
(* ScrollRestoration constructor, run by the Router constructor *)

\* currentId = history.state?.restorationId ?? generateId()
constructorId(state, fresh) ==
  IF HasRestorationId(state) THEN state.obj["restorationId"] ELSE generateId(fresh)

\* Mutant: the constructor writes { restorationId } alone
constructorState_replaces(state, id) == Obj("restorationId" :> id)

\* { ...history.state, restorationId: currentId }
constructorState(state, id) == Obj(("restorationId" :> id) @@ Spread(state))

newRouter(c) ==
  /\ ~constructed
  /\ constructed' = ~hydrateEscapes(storage)
  /\ scrollElement' = (c # NoElement)
  /\ container' = c
  /\ nativeRestore' = "manual"
  /\ currentId' = constructorId(HistoryState, nextId)
  /\ nextId' = IF HasRestorationId(HistoryState) THEN nextId ELSE nextId + 1
  /\ history' = replaceState(history, idx, constructorState(HistoryState, currentId'))
  /\ positions' = hydrate(positions, storage)
  /\ effects' = <<Did("replaceState"), Did("hydrate")>>
                  \o (IF hydrateEscapes(storage) THEN <<Did("throw")>> ELSE <<>>)
  /\ UNCHANGED <<idx, nextEid, winPos, elPos, docIds, storage, inflight, nVisits, leftAt,
                 nLoads>>
  /\ UNCHANGED <<listeners, returned, mountRoot, event>>
  /\ UNCHANGED <<loading, mercure>>

\* new Router(app, doc, fetchImpl, scrollElement) with an element or with null
Construct(el) == newRouter(IF el THEN Scroller ELSE NoElement)

----------------------------------------------------------------------------
(* new App(...): the scroll container of the mount element is resolved and
   handed to the Router *)

\* An ancestor of the mount element, and the mount element in its document:
\* whether it carries data-scroll-container, the element that selector finds,
\* its ancestors from the parent outwards, and whether the document has a
\* window (doc.defaultView)
Ancestor(name, overflowY, isBody) ==
  [name |-> name, overflowY |-> overflowY, isBody |-> isBody]
Root(hasAttr, selected, ancestors, view) ==
  [hasAttr |-> hasAttr, selected |-> selected, ancestors |-> ancestors, view |-> view]

\* Mutant: the parent of the mount element, whatever its overflow
detectScrollContainer_parent(root) ==
  IF root.ancestors = <<>> \/ root.ancestors[1].isBody THEN NoElement
  ELSE root.ancestors[1].name

\* Mutant: the walk takes overflow-y hidden for scrollable too
RECURSIVE walkUp_hiddenScrolls(_)
walkUp_hiddenScrolls(chain) ==
  IF chain = <<>> \/ Head(chain).isBody THEN NoElement
  ELSE IF Head(chain).overflowY \in {"auto", "scroll", "hidden"} THEN Head(chain).name
  ELSE walkUp_hiddenScrolls(Tail(chain))

\* detectScrollContainer(root, doc): null without a window; else the nearest
\* ancestor below body whose computed overflow-y is auto or scroll, null when
\* there is none
RECURSIVE walkUp(_)
walkUp(chain) ==
  IF chain = <<>> \/ Head(chain).isBody THEN NoElement
  ELSE IF Head(chain).overflowY \in {"auto", "scroll"} THEN Head(chain).name
  ELSE walkUp(Tail(chain))
detectScrollContainer(root) == IF ~root.view THEN NoElement ELSE walkUp(root.ancestors)

\* detectScrollContainer(root, doc) called by itself, as its tests call it
detect ==
  /\ effects' = <<Call("detectScrollContainer", detectScrollContainer(mountRoot), 0, 0, <<>>)>>
  /\ UNCHANGED <<constructed, nativeRestore, history, idx, nextEid, positions, currentId,
                 nextId, scrollElement, winPos, elPos, docIds, storage, inflight, nVisits,
                 leftAt, nLoads, listeners, returned, mountRoot, container, event>>
  /\ UNCHANGED <<loading, mercure>>

\* The element the explicit selector finds, the detected container otherwise
resolve(root) == IF root.hasAttr THEN root.selected ELSE detectScrollContainer(root)

\* new App(component): new Router(this, doc, fetchImp, resolved container)
newApp == newRouter(resolve(mountRoot))

----------------------------------------------------------------------------
(* The user scrolls the region that governs scrolling: the element when there
   is one (the window then stays where it is), the window otherwise *)

UserScroll(region, p) ==
  /\ (region = "element") = scrollElement
  /\ IF region = "window" THEN winPos # p ELSE elPos # p
  /\ winPos' = IF region = "window" THEN p ELSE winPos
  /\ elPos' = IF region = "element" THEN p ELSE elPos
  /\ effects' = <<>>
  /\ UNCHANGED <<constructed, nativeRestore, history, idx, nextEid, positions, currentId,
                 nextId, scrollElement, docIds, storage, inflight, nVisits, leftAt,
                 nLoads>>
  /\ UNCHANGED <<listeners, returned, mountRoot, container, event>>
  /\ UNCHANGED <<loading, mercure>>

----------------------------------------------------------------------------
(* Router.on and Router.off *)

Has(seq, h) == \E i \in 1..Len(seq) : seq[i] = h
Without(seq, h) == SelectSeq(seq, LAMBDA x : x # h)

\* Set.add(handler): a handler the set holds already is not added again
add(ls, type, h) ==
  [ls EXCEPT ![type] = IF Has(ls[type], h) THEN ls[type] ELSE Append(ls[type], h)]

\* Mutant: off() that clears the set of the type
delete_clears(ls, type, h) == [ls EXCEPT ![type] = <<>>]

\* this.listeners[type]?.delete(handler)
delete(ls, type, h) == [ls EXCEPT ![type] = Without(ls[type], h)]

\* on(type, handler): returns () => this.off(type, handler)
on(type, h) ==
  /\ constructed
  /\ listeners' = add(listeners, type, h)
  /\ returned' = returned \cup {<<type, h>>}
  /\ effects' = <<Call("on", h, 0, 0, <<type>>)>>
  /\ UNCHANGED <<constructed, nativeRestore, history, idx, nextEid, positions, currentId,
                 nextId, scrollElement, winPos, elPos, docIds, storage, inflight, nVisits,
                 leftAt, nLoads, mountRoot, container, event>>
  /\ UNCHANGED <<loading, mercure>>

\* off(type, handler)
off(type, h) ==
  /\ constructed
  /\ listeners' = delete(listeners, type, h)
  /\ effects' = <<Call("off", h, 0, 0, <<type>>)>>
  /\ UNCHANGED <<constructed, nativeRestore, history, idx, nextEid, positions, currentId,
                 nextId, scrollElement, winPos, elPos, docIds, storage, inflight, nVisits,
                 leftAt, nLoads, returned, mountRoot, container, event>>
  /\ UNCHANGED <<loading, mercure>>

\* A function that on(type, handler) returned is called: this.off(type, handler)
unsubscribe(type, h) ==
  /\ <<type, h>> \in returned
  /\ off(type, h)

----------------------------------------------------------------------------
(* RouterProvider: const [loading, setLoading] = useState(false), and the
   effect that subscribes its handlers to the router *)

\* The effect runs when the provider has mounted: router.on("nav:started",
\* start); router.on("nav:ended", end); router.on("render:failed", onRenderFailed)
useEffect ==
  /\ constructed
  /\ ~Has(listeners["nav:started"], "start")
  /\ listeners' = add(add(add(listeners, "nav:started", "start"), "nav:ended", "end"),
                      "render:failed", "onRenderFailed")
  /\ loading' = FALSE
  /\ effects' = <<Call("on", "start", 0, 0, <<"nav:started">>),
                  Call("on", "end", 0, 0, <<"nav:ended">>),
                  Call("on", "onRenderFailed", 0, 0, <<"render:failed">>)>>
  /\ UNCHANGED <<constructed, nativeRestore, history, idx, nextEid, positions, currentId,
                 nextId, scrollElement, winPos, elPos, docIds, storage, inflight, nVisits,
                 leftAt, nLoads, returned, mountRoot, container, event, mercure>>

\* The cleanup the effect returns runs when the provider unmounts: router.off
\* for the three handlers
cleanup ==
  /\ Has(listeners["nav:started"], "start")
  /\ listeners' = delete(delete(delete(listeners, "nav:started", "start"), "nav:ended", "end"),
                         "render:failed", "onRenderFailed")
  /\ effects' = <<Call("off", "start", 0, 0, <<"nav:started">>),
                  Call("off", "end", 0, 0, <<"nav:ended">>),
                  Call("off", "onRenderFailed", 0, 0, <<"render:failed">>)>>
  /\ UNCHANGED <<constructed, nativeRestore, history, idx, nextEid, positions, currentId,
                 nextId, scrollElement, winPos, elPos, docIds, storage, inflight, nVisits,
                 leftAt, nLoads, returned, mountRoot, container, event, loading, mercure>>

----------------------------------------------------------------------------
(* Router.visit, up to its first await (Router.ts 608-612) *)

\* Offset of the region that governs scrolling
regionPos == IF scrollElement THEN elPos ELSE winPos

\* The browser leaves entry e: remember the offset the region had
leave(e) == [k \in DOMAIN leftAt \cup {e.eid} |-> IF k = e.eid THEN regionPos ELSE leftAt[k]]

\* Calls of visit() suspended with the same arguments run the same code from
\* there on; n numbers them, and the one numbered last is the one taken to settle.
Alike(v, w) ==
  /\ v.input = w.input /\ v.init = w.init /\ v.pushState = w.pushState
  /\ v.scroll = w.scroll /\ v.via = w.via
Suspended(input, init, isPush, scrollOpt, via) ==
  {w \in inflight : Alike(w, [input |-> input, init |-> init, pushState |-> isPush,
                              scroll |-> scrollOpt, via |-> via])}
Settles(v) == v \in inflight /\ \A w \in inflight : Alike(v, w) => w.n <= v.n

\* The handlers RouterProvider subscribes: start = () => setLoading(true),
\* end = () => setLoading(false).  The value of loading after the handlers
\* a log has called, in order.
RECURSIVE afterHandlers(_, _)
afterHandlers(flag, log) ==
  IF log = <<>> THEN flag
  ELSE afterHandlers(IF Head(log).op = "handler" /\ Head(log).arg = "start" THEN TRUE
                     ELSE IF Head(log).op = "handler" /\ Head(log).arg = "end" THEN FALSE
                     ELSE flag,
                     Tail(log))

\* protected emit(type, ...args): the call, then every handler of that type
emit(ls, type, url) ==
  <<Emit(type, url)>>
    \o [i \in 1..Len(ls[type]) |-> Call("handler", ls[type][i], 0, 0, url)]

visitStart(first, input, init, isPush, scrollOpt, via) ==
  /\ constructed
  /\ positions' = save(positions, currentId, scrollElement, winPos, elPos)
  /\ nVisits' = nVisits + 1
  /\ inflight' = inflight \cup
       {[n |-> Cardinality(Suspended(input, init, isPush, scrollOpt, via)) + 1,
         input |-> input, init |-> init, pushState |-> isPush, scroll |-> scrollOpt,
         via |-> via]}
  /\ effects' = first \o <<Did("save")>> \o getPositionCalls(scrollElement)
                  \o emit(listeners, "nav:started", <<>>)
                  \o <<Call("fetch", init.method, 0, 0, input)>>
  /\ UNCHANGED <<constructed, nativeRestore, history, nextEid, currentId, nextId,
                 scrollElement, winPos, elPos, docIds, storage, nLoads>>
  /\ UNCHANGED <<listeners, returned, mountRoot, container, event>>
  /\ loading' = afterHandlers(loading, effects')
  /\ UNCHANGED mercure

\* The handler returns before it called anything
ignore ==
  /\ effects' = <<>>
  /\ UNCHANGED <<constructed, nativeRestore, history, idx, nextEid, positions, currentId,
                 nextId, scrollElement, winPos, elPos, docIds, storage, inflight, nVisits,
                 leftAt, nLoads, listeners, returned, mountRoot, container, event>>
  /\ UNCHANGED <<loading, mercure>>

\* event.preventDefault(); event.stopPropagation()
takeOver == <<Did("preventDefault"), Did("stopPropagation")>>

\* String.prototype.startsWith and includes
startsWith(s, p) == Len(s) >= Len(p) /\ SubSeq(s, 1, Len(p)) = p
includes(s, c) == \E i \in 1..Len(s) : s[i] = c

\* String.prototype.toLowerCase and toUpperCase on the strings that occur
toLowerCase(s) ==
  IF s = "_SELF" THEN "_self" ELSE IF s = "EXTERNAL" THEN "external" ELSE s
toUpperCase(s) == IF s = "get" THEN "GET" ELSE IF s = "post" THEN "POST" ELSE s

\* /^[a-zA-Z][a-zA-Z\d+\-.]*:/.test(href)
Letters == {"a", "b", "h", "k", "n", "p", "s", "x"}
Digits == {"1", "8"}
matchesScheme(href) ==
  /\ href # <<>> /\ href[1] \in Letters
  /\ \E k \in 2..Len(href) :
       /\ href[k] = ":"
       /\ \A j \in 2..(k - 1) : href[j] \in Letters \cup Digits \cup {"+", "-", "."}

\* Mutant: isRelativeHref() without the test for "//"
isRelativeHref_protocolRelative(href) ==
  /\ href.has /\ href.v # <<>>
  /\ ~startsWith(href.v, <<"#">>)
  /\ ~matchesScheme(href.v)

\* isRelativeHref(href): href is the attribute's value, or null without the attribute
isRelativeHref(href) ==
  /\ href.has /\ href.v # <<>>
  /\ ~startsWith(href.v, <<"#">>)
  /\ ~startsWith(href.v, <<"/", "/">>)
  /\ ~matchesScheme(href.v)

\* hasNavBypassModifiers(e)
hasNavBypassModifiers(e) ==
  e.defaultPrevented \/ e.button # 0 \/ e.metaKey \/ e.ctrlKey \/ e.shiftKey \/ e.altKey

\* /\bexternal\b/i.test(rel): rel is given as its words and the characters between them
relExternal(rel) == \E i \in 1..Len(rel) : toLowerCase(rel[i]) = "external"

\* link.target && link.target.toLowerCase() !== "_self"
otherTarget(target) == target # "" /\ toLowerCase(target) # "_self"

\* onClick up to its visit() call: TRUE when no early return is taken.  e.el
\* is what closest("a") finds, with tag "none" when it finds nothing.
clickPasses(e) ==
  /\ ~hasNavBypassModifiers(e)
  /\ e.el.tag = "a"
  /\ isRelativeHref(e.el.attr)
  /\ ~otherTarget(e.el.target)
  /\ ~e.el.download
  /\ ~relExternal(e.el.rel)

\* onClick(event): visit(hrefAttr, { method: "GET" }, true, link.dataset.scroll)
onClick(e) ==
  /\ constructed
  /\ IF clickPasses(e)
     THEN /\ visitStart(takeOver, e.el.attr.v, GetInit, TRUE, e.el.scroll, "call")
          /\ leftAt' = leave(history[idx])
          /\ UNCHANGED idx
     ELSE ignore

\* new FormData(form), with the submitter's pair when the submitter is a
\* button element that has a name
formData(e) ==
  e.el.fields \o
    (IF e.submitter.kind = "button" /\ e.submitter.name # <<>>
     THEN <<[name |-> e.submitter.name, value |-> e.submitter.value, file |-> FALSE]>>
     ELSE <<>>)

\* URLSearchParams.toString(): application/x-www-form-urlencoded
RECURSIVE urlencode(_)
urlencode(s) ==
  IF s = <<>> THEN <<>>
  ELSE (IF Head(s) = " " THEN <<"+">>
        ELSE IF Head(s) = "&" THEN <<"%", "2", "6">>
        ELSE <<Head(s)>>) \o urlencode(Tail(s))
RECURSIVE toString(_)
toString(params) ==
  IF params = <<>> THEN <<>>
  ELSE urlencode(Head(params).name) \o <<"=">> \o urlencode(Head(params).value)
         \o (IF Tail(params) = <<>> THEN <<>> ELSE <<"&">> \o toString(Tail(params)))

\* formData.forEach: if (typeof value === "string") params.append(key, value)
stringParams(e) == SelectSeq(formData(e), LAMBDA f : ~f.file)

\* const method = (form.method || "GET").toUpperCase()
methodOf(form) == toUpperCase(IF form.method = "" THEN "GET" ELSE form.method)

\* let url = actionAttr ?? ""; for GET: url = `${url}${sep}${q}`
submitUrl(e) ==
  LET url == IF e.el.attr.has THEN e.el.attr.v ELSE <<>>
      q == toString(stringParams(e))
      sep == IF includes(url, "?") THEN (IF q # <<>> THEN <<"&">> ELSE <<>>)
             ELSE IF q # <<>> THEN <<"?">> ELSE <<>>
  IN IF methodOf(e.el) = "GET" THEN url \o sep \o q ELSE url

\* let body = null; for a method other than GET: body = formData
submitBody(e) == IF methodOf(e.el) = "GET" THEN Null ELSE Obj(formData(e))

\* onSubmit up to preventDefault(): TRUE when no early return is taken
submitPasses(e) ==
  /\ ~otherTarget(e.el.target)
  /\ ~e.el.attr.has \/ isRelativeHref(e.el.attr)

\* onSubmit(event): visit(url || location.pathname + location.search,
\* { method, body }, true, form.dataset.scroll)
onSubmit(e) ==
  /\ constructed
  /\ IF submitPasses(e)
     THEN /\ visitStart(takeOver,
                        IF submitUrl(e) # <<>> THEN submitUrl(e)
                        ELSE pathAndSearch(history[idx].url),
                        RequestInit(methodOf(e.el), submitBody(e)), TRUE, e.el.scroll, "call")
          /\ leftAt' = leave(history[idx])
          /\ UNCHANGED idx
     ELSE ignore

\* A click on <a href="#frag">: onClick returns at isRelativeHref and the
\* browser navigates to the fragment, which adds an entry for the same document
\* whose state is null.  No element has the id frag, so nothing scrolls.
fragmentNavigation(frag) ==
  /\ constructed
  /\ ~clickPasses(Click(<<"#">> \o frag, "undefined"))
  /\ frag \notin docIds
  /\ history' = pushState(history, idx, Null,
                          pathAndSearch(history[idx].url) \o <<"#">> \o frag, nextEid)
  /\ idx' = idx + 1
  /\ nextEid' = nextEid + 1
  /\ leftAt' = leave(history[idx])
  /\ effects' = <<>>
  /\ UNCHANGED <<constructed, nativeRestore, positions, currentId, nextId, scrollElement,
                 winPos, elPos, docIds, storage, inflight, nVisits, nLoads, listeners,
                 returned, mountRoot, container, event>>
  /\ UNCHANGED <<loading, mercure>>

\* navigate(path, options): visit(path, GET, true, options?.scroll)
navigate(path, scrollOpt) ==
  /\ visitStart(<<>>, path, GetInit, TRUE, scrollOpt, "call")
  /\ leftAt' = leave(history[idx])
  /\ UNCHANGED idx

\* visit(input, init, true, scroll) called directly
visitPush(input, scrollOpt) ==
  /\ visitStart(<<>>, input, GetInit, TRUE, scrollOpt, "call")
  /\ leftAt' = leave(history[idx])
  /\ UNCHANGED idx

\* visit(input, init, false, scroll) called directly (the refetch of the
\* current location, or any other caller)
visitPop(input, scrollOpt) ==
  /\ visitStart(<<>>, input, GetInit, FALSE, scrollOpt, "call")
  /\ UNCHANGED <<idx, leftAt>>

\* The browser goes back (d = -1) or forward (d = 1) and fires popstate: the
\* listener calls visit(location.pathname + location.search, GET, false)
onPopState(d) ==
  /\ idx + d \in 1..Len(history)
  /\ idx' = idx + d
  /\ visitStart(<<>>, pathAndSearch(history[idx + d].url), GetInit, FALSE, "undefined",
                "popstate")
  /\ leftAt' = leave(history[idx])

----------------------------------------------------------------------------
(* Router.visit: an awaited promise rejects (Router.ts 612-613) *)

\* Mutant: visit() catches the rejection and fetches again
afterRejection_retries(input) == <<Call("fetch", "GET", 0, 0, input)>>

\* visit() has no try/catch around its awaits: it makes no call after a rejection
afterRejection(input) == <<>>

\* fetch or response.text() rejects: visit() rejects, nothing after the await runs
visitReject(v) ==
  /\ Settles(v)
  /\ inflight' = inflight \ {v}
  /\ effects' = <<Did("reject")>> \o afterRejection(v.input)
  /\ UNCHANGED <<constructed, nativeRestore, history, idx, nextEid, positions, currentId,
                 nextId, scrollElement, winPos, elPos, docIds, storage, nVisits, leftAt,
                 nLoads>>
  /\ UNCHANGED <<listeners, returned, mountRoot, container, event>>
  /\ UNCHANGED <<loading, mercure>>

----------------------------------------------------------------------------
(* Router.visit after response.text() resolved (Router.ts 615-633) *)

\* Mutant: the response's URL whether or not the response was redirected
finalUrlOf_responseUrl(input, response) == response.url

\* const finalUrl = response.redirected ? response.url : original
finalUrlOf(input, response) == IF response.redirected THEN response.url ELSE input

\* Mutant: the history step taken whatever render returned
historyStep_ignoresResult(result, isPush) == IF isPush THEN "push" ELSE "pop"

\* Mutant: every rendered visit advances the history
historyStep_alwaysPush(result, isPush) == IF result THEN "push" ELSE "none"

\* if (result && pushState) {push} else if (result && !pushState) {pop}
historyStep(result, isPush) ==
  IF result /\ isPush THEN "push"
  ELSE IF result /\ ~isPush THEN "pop"
  ELSE "none"

\* Mutant: visit() that never calls scroll()
scrollStep_never(result) == FALSE

\* if (result) { scroll(...) }
scrollStep(result) == result

\* Mutant: visit() that renders the body of an OK response only
visitResult_checksOk(response, html) == response.status = 200 /\ render(html)

\* const result = this.app.render(html): response.ok and response.status are not read
visitResult(response, html) == render(html)

\* What fetch resolved with, as the first entry of the log: x is the HTTP status
Resolved(response) ==
  Call("response", IF response.redirected THEN "redirected" ELSE "direct",
       response.status, 0, response.url)

\* const html = await response.text(): the body read, with or without the mount element
Text(html) == Call("text", IF html.root THEN "mount" ELSE "no mount", 0, 0, <<>>)

\* return { result, response, html, finalUrl }
Return(result, finalUrl) ==
  Call("return", IF result THEN "true" ELSE "false", 0, 0, finalUrl)

\* Mutant: render:success whatever render returned
renderEvent_alwaysSuccess(result) == "render:success"

\* const event = result ? "render:success" : "render:failed"
renderEvent(result) == IF result THEN "render:success" ELSE "render:failed"

\* No code of visit() runs between its two awaits, so both are one suspension:
\* response is what fetch resolved with, html the body read.  ids are the
\* element ids the live document holds once the content is swapped, which is
\* what getElementById finds when scroll() runs; a scrollIntoView leaves the
\* region at some offset `at`.
visitComplete(v, response, html, ids) ==
  /\ Settles(v)
  /\ LET result == visitResult(response, html)
         finalUrl == finalUrlOf(v.input, response)
         step == historyStep(result, v.pushState)
         pushed == push(currentId, nextId)
         cur == IF step = "push" THEN pushed.currentId
                ELSE IF step = "pop" THEN pop(HistoryState, currentId)
                ELSE currentId
         calls == IF scrollStep(result)
                  THEN scroll(v.pushState, v.scroll, finalUrl, cur, positions, ids,
                              scrollElement)
                  ELSE <<>>
     IN \E at \in (IF calls # <<>> /\ calls[1].op = "scrollIntoView"
                    THEN Offsets ELSE {regionPos}) :
        /\ currentId' = cur
        /\ nextId' = IF step = "push" THEN nextId + 1 ELSE nextId
        /\ history' = IF step = "push"
                      THEN pushState(history, idx, pushed.state, finalUrl, nextEid)
                      ELSE history
        /\ idx' = IF step = "push" THEN idx + 1 ELSE idx
        /\ nextEid' = IF step = "push" THEN nextEid + 1 ELSE nextEid
        /\ docIds' = IF result THEN ids ELSE docIds
        /\ winPos' = regionAfter(calls, "window", winPos, at, scrollElement)
        /\ elPos' = regionAfter(calls, "element", elPos, at, scrollElement)
        /\ effects' =
             <<Resolved(response), Text(html),
               Call("render", IF result THEN "true" ELSE "false", 0, 0, <<>>)>>
             \o (IF step = "push"
                 THEN <<Did("push"), Call("pushState", "", 0, 0, finalUrl)>>
                 ELSE IF step = "pop" THEN <<Did("pop")>> ELSE <<>>)
             \o (IF scrollStep(result)
                 THEN <<Call("scroll", v.scroll, 0, 0, finalUrl)>> \o calls ELSE <<>>)
             \o emit(listeners, renderEvent(result), finalUrl)
             \o emit(listeners, "nav:ended", finalUrl)
             \o <<Return(result, finalUrl)>>
  /\ inflight' = inflight \ {v}
  /\ UNCHANGED <<constructed, nativeRestore, positions, scrollElement, storage, nVisits,
                 leftAt, nLoads>>
  /\ UNCHANGED <<listeners, returned, mountRoot, container, event>>
  /\ loading' = afterHandlers(loading, effects')
  /\ UNCHANGED mercure

\* The documents a body can leave: the one there is when render fails
Swapped(html) == IF render(html) THEN Documents ELSE {docIds}

----------------------------------------------------------------------------
(* Mercure: subscribe, close, and the handlers of the EventSource it holds.
   An EventSource is known by its index in mercure.sources; its readyState
   is "connecting", "open" or "closed".  Subscribers of Mercure events are not
   modelled: emit stands for the calls of whatever handlers there are. *)

\* MercureOptions o: o.topics is one string or an array of strings
\* url = new URL(hubUrl); topicArray.forEach(t => url.searchParams.append("topic", t));
\* if (lastEventId) url.searchParams.set("lastEventID", lastEventId); url.toString()
subscriptionUrl(o) ==
  LET topicArray == IF o.topics.isArray THEN o.topics.v ELSE <<o.topics.v>>
      params == [i \in 1..Len(topicArray) |->
                   [name |-> <<"topic">>, value |-> topicArray[i]]]
                  \o (IF o.lastEventId # <<>>
                      THEN <<[name |-> <<"lastEventID">>, value |-> o.lastEventId]>>
                      ELSE <<>>)
  IN  o.hubUrl \o <<"?">> \o toString(params)

\* Mutant: close() that forgets the EventSource without closing it
closeOf_leavesOpen(m) ==
  IF m.eventSource # 0
  THEN [m |-> [m EXCEPT !.eventSource = 0, !.currentUrl = <<>>],
        calls |-> <<Emit("sse:disconnected", m.currentUrl)>>]
  ELSE [m |-> m, calls |-> <<>>]

\* close(): the instance after it and the calls it makes
closeOf(m) ==
  IF m.eventSource # 0
  THEN [m |-> [eventSource |-> 0, currentUrl |-> <<>>,
               sources |-> [m.sources EXCEPT
                              ![m.eventSource].readyState = "closed",
                              ![m.eventSource].disconnected =
                                 IF m.currentUrl # <<>> THEN @ + 1 ELSE @]],
        calls |-> <<Call("close", "", m.eventSource, 0, <<>>)>>
                    \o (IF m.currentUrl # <<>>
                        THEN <<Emit("sse:disconnected", m.currentUrl)>> ELSE <<>>)]
  ELSE [m |-> m, calls |-> <<>>]

\* get connected(): this.eventSource?.readyState === EventSource.OPEN
connected(m) == m.eventSource # 0 /\ m.sources[m.eventSource].readyState = "open"

\* subscribe(options): close(), then new URL(hubUrl), which throws on a URL
\* without a scheme, then the new EventSource
subscribe(o) ==
  /\ LET c == closeOf(mercure)
         id == Len(mercure.sources) + 1
     IN  IF ~matchesScheme(o.hubUrl)
         THEN /\ mercure' = c.m
              /\ effects' = <<Did("subscribe")>> \o c.calls \o <<Did("throw")>>
         ELSE /\ mercure' =
                   [eventSource |-> id, currentUrl |-> subscriptionUrl(o),
                    sources |-> Append(c.m.sources,
                                       [readyState |-> "connecting",
                                        url |-> subscriptionUrl(o), disconnected |-> 0])]
              /\ effects' = <<Did("subscribe")>> \o c.calls
                   \o <<Call("EventSource",
                             IF o.withCredentials THEN "withCredentials" ELSE "", id, 0,
                             subscriptionUrl(o))>>
  /\ UNCHANGED <<constructed, nativeRestore, history, idx, nextEid, positions, currentId,
                 nextId, scrollElement, winPos, elPos, docIds, storage, inflight, nVisits,
                 leftAt, nLoads, listeners, returned, mountRoot, container, event, loading>>

\* close()
close ==
  /\ mercure' = closeOf(mercure).m
  /\ effects' = <<Did("closeConnection")>> \o closeOf(mercure).calls
  /\ UNCHANGED <<constructed, nativeRestore, history, idx, nextEid, positions, currentId,
                 nextId, scrollElement, winPos, elPos, docIds, storage, inflight, nVisits,
                 leftAt, nLoads, listeners, returned, mountRoot, container, event, loading>>

\* The connection of the EventSource held is established: eventSource.onopen
onopen ==
  /\ mercure.eventSource # 0
  /\ mercure.sources[mercure.eventSource].readyState = "connecting"
  /\ mercure' = [mercure EXCEPT !.sources[mercure.eventSource].readyState = "open"]
  /\ effects' = <<Emit("sse:connected", mercure.currentUrl)>>
  /\ UNCHANGED <<constructed, nativeRestore, history, idx, nextEid, positions, currentId,
                 nextId, scrollElement, winPos, elPos, docIds, storage, inflight, nVisits,
                 leftAt, nLoads, listeners, returned, mountRoot, container, event, loading>>

\* The connection fails, for good (the browser closes the EventSource) or
\* not (the browser reconnects): eventSource.onerror
onerror(fatal) ==
  /\ mercure.eventSource # 0
  /\ mercure.sources[mercure.eventSource].readyState # "closed"
  /\ mercure' =
       [mercure EXCEPT
          !.sources[mercure.eventSource].readyState = IF fatal THEN "closed" ELSE "connecting",
          !.sources[mercure.eventSource].disconnected = IF fatal THEN @ + 1 ELSE @]
  /\ effects' = <<Emit("sse:error", <<>>)>>
                  \o (IF fatal THEN <<Emit("sse:disconnected", mercure.currentUrl)>> ELSE <<>>)
  /\ UNCHANGED <<constructed, nativeRestore, history, idx, nextEid, positions, currentId,
                 nextId, scrollElement, winPos, elPos, docIds, storage, inflight, nVisits,
                 leftAt, nLoads, listeners, returned, mountRoot, container, event, loading>>

\* The hub sends a message: eventSource.onmessage renders its data
onmessage(html) ==
  /\ connected(mercure)
  /\ effects' = <<Emit("sse:message", <<>>),
                  Call("render", IF render(html) THEN "true" ELSE "false", 0, 0, <<>>),
                  Emit(renderEvent(render(html)), <<>>)>>
  /\ UNCHANGED <<constructed, nativeRestore, history, idx, nextEid, positions, currentId,
                 nextId, scrollElement, winPos, elPos, docIds, storage, inflight, nVisits,
                 leftAt, nLoads, listeners, returned, mountRoot, container, event, loading,
                 mercure>>

----------------------------------------------------------------------------
(* beforeunload, and the page loaded again in the same tab *)

\* The beforeunload listener: persist().  geoOk: reading the scroll offset
\* returns; writeOk: setItem returns (it throws when the quota is exceeded).
\* The page need not unload after it.
onBeforeUnload(geoOk, writeOk) ==
  /\ constructed
  /\ LET saved == save(positions, currentId, scrollElement, winPos, elPos)
         wrote == geoOk /\ writeOk /\ ~storage.blocked
     IN  /\ positions' = IF geoOk THEN saved ELSE positions
         /\ storage' = IF wrote
                       THEN stringify(storage, entriesOf(persistTable(positions, saved)))
                       ELSE storage
         /\ effects' = <<Did("persist"), Did("save")>> \o getPositionCalls(scrollElement)
              \o (IF geoOk
                  THEN <<Call("setItem", IF wrote THEN "ok" ELSE "throws", 0, 0, <<>>)>>
                  ELSE <<>>)
              \o (IF persistEscapes(geoOk, writeOk /\ ~storage.blocked)
                  THEN <<Did("throw")>> ELSE <<>>)
  /\ UNCHANGED <<constructed, nativeRestore, history, idx, nextEid, currentId, nextId,
                 scrollElement, winPos, elPos, docIds, inflight, nVisits, leftAt, nLoads>>
  /\ UNCHANGED <<listeners, returned, mountRoot, container, event>>
  /\ UNCHANGED <<loading, mercure>>

\* The page unloads right after its beforeunload listener ran and is loaded
\* again on the same entry: history and sessionStorage are kept, the script
\* state is gone, and so are the visits in flight.
Load ==
  /\ constructed
  /\ nLoads < MaxLoads
  /\ effects # <<>> /\ effects[1].op = "persist"
  /\ constructed' = FALSE
  /\ positions' = <<>>
  /\ currentId' = 0
  /\ scrollElement' = FALSE
  /\ container' = NoElement
  /\ listeners' = NoListeners
  /\ returned' = {}
  /\ winPos' = Pos(0, 0)
  /\ elPos' = Pos(0, 0)
  /\ docIds' = {}
  /\ inflight' = {}
  /\ effects' = <<>>
  /\ leftAt' = leave(history[idx])
  /\ nLoads' = nLoads + 1
  /\ UNCHANGED <<nativeRestore, history, idx, nextEid, nextId, storage, nVisits, mountRoot,
                 event>>
  /\ loading' = FALSE
  /\ mercure' = NoMercure

\* visit() called while reading the scroll offset throws: save() has no
\* try/catch, so visit() rejects before it emits or fetches anything
visitGeometryFails(input, isPush, scrollOpt) ==
  /\ constructed
  /\ effects' = <<Did("save")>> \o getPositionCalls(scrollElement) \o <<Did("throw")>>
  /\ UNCHANGED <<constructed, nativeRestore, history, idx, nextEid, positions, currentId,
                 nextId, scrollElement, winPos, elPos, docIds, storage, inflight, nVisits,
                 leftAt, nLoads>>
  /\ UNCHANGED <<listeners, returned, mountRoot, container, event>>
  /\ UNCHANGED <<loading, mercure>>

----------------------------------------------------------------------------
(* Specifications *)

\* Bounds of the model: visits started, visits in flight together
CanStart == nVisits < MaxVisits /\ Cardinality(inflight) < MaxInFlight

\* onClick, onSubmit, navigate and a direct visit(..., true, ...) differ in
\* where they take the arguments of visit() from and in nothing after that:
\* links range over every URL and intent, the other three over one each.
\* The callers of visit(..., false) pass no intent, which scroll() does not
\* read on a pop.
Next ==
  \/ \E el \in BOOLEAN : Construct(el)
  \/ \E r \in {"window", "element"}, p \in Offsets : UserScroll(r, p)
  \/ \E u \in Urls, o \in ScrollOptions : CanStart /\ onClick(Click(u, o))
  \/ CanStart /\ onSubmit(Submit(UrlA, "preserve"))
  \/ CanStart /\ navigate(UrlBS, "top")
  \/ CanStart /\ visitPush(UrlA, "undefined")
  \/ \E u \in Urls : CanStart /\ visitPop(u, "undefined")
  \/ \E d \in {-1, 1} : CanStart /\ onPopState(d)
  \/ \E v \in inflight : visitReject(v)
  \/ \E v \in inflight, html \in Htmls :
       \E r \in Responses(v.input), ids \in Swapped(html) : visitComplete(v, r, html, ids)

Spec == Init /\ [][Next]_vars

\* Navigations one after the other, each fetched and rendered successfully:
\* push visits and browser back/forward
NextSeq ==
  \/ \E el \in BOOLEAN : Construct(el)
  \/ \E r \in {"window", "element"}, p \in Offsets : UserScroll(r, p)
  \/ \E u \in Urls, o \in ScrollOptions :
       (nVisits < MaxSeqVisits /\ inflight = {}) /\ onClick(Click(u, o))
  \/ (nVisits < MaxSeqVisits /\ inflight = {}) /\ navigate(UrlBS, "top")
  \/ \E d \in {-1, 1} : (nVisits < MaxSeqVisits /\ inflight = {}) /\ onPopState(d)
  \/ \E v \in inflight, html \in Htmls :
       /\ render(html)
       /\ \E r \in Responses(v.input), ids \in Swapped(html) :
            visitComplete(v, r, html, ids)

SpecSeq == Init /\ [][NextSeq]_vars

\* Navigations to "/a" one after the other with reloads in between, on a page
\* that the window scrolls, in a browser whose sessionStorage may hold anything
\* or throw, and whose geometry reads may throw
InvalidJson == Item(FALSE, TRUE, FALSE, FALSE, <<>>)
NotAList == Item(FALSE, TRUE, TRUE, FALSE, <<>>)
PartList == Item(FALSE, TRUE, TRUE, TRUE, <<Entry(0, Pos(1, 2)), NotAPair>>)
Blocked == Item(TRUE, TRUE, TRUE, TRUE, <<Entry(0, Pos(1, 2))>>)
\* history.state and the stored item the page starts with: a first load, or a
\* load of an entry that has an id, with whatever the store holds
EnvPages ==
  {<<Null, NoItem>>, <<Null, OldItem>>, <<Null, Blocked>>,
   <<Obj("restorationId" :> 0), OldItem>>, <<Obj("restorationId" :> 0), InvalidJson>>,
   <<Obj("restorationId" :> 0), NotAList>>, <<Obj("restorationId" :> 0), PartList>>}

InitEnv ==
  /\ constructed = FALSE
  /\ nativeRestore = "auto"
  /\ \E pg \in EnvPages :
       /\ history = <<[url |-> UrlA, state |-> pg[1], eid |-> 1]>>
       /\ storage = pg[2]
  /\ idx = 1
  /\ nextEid = 2
  /\ positions = <<>>
  /\ currentId = 0
  /\ nextId = 1
  /\ scrollElement = FALSE
  /\ winPos = Pos(0, 0)
  /\ elPos = Pos(0, 0)
  /\ docIds = {}
  /\ inflight = {}
  /\ nVisits = 0
  /\ effects = <<>>
  /\ leftAt = <<>>
  /\ nLoads = 0
  /\ listeners = NoListeners
  /\ returned = {}
  /\ mountRoot = PlainRoot
  /\ container = NoElement
  /\ event = NoEvent
  /\ loading = FALSE
  /\ mercure = NoMercure

NextEnv ==
  \/ Construct(FALSE)
  \/ \E r \in {"window", "element"}, p \in Offsets : UserScroll(r, p)
  \/ (nVisits < MaxEnvVisits /\ inflight = {}) /\ navigate(UrlA, "undefined")
  \/ \E d \in {-1, 1} : (nVisits < MaxEnvVisits /\ inflight = {}) /\ onPopState(d)
  \/ \E v \in inflight, html \in Htmls :
       \E r \in {x \in Responses(v.input) : ~x.redirected} :
         visitComplete(v, r, html, docIds)
  \/ \E geoOk \in BOOLEAN, writeOk \in BOOLEAN : onBeforeUnload(geoOk, writeOk)
  \/ Load
  \/ visitGeometryFails(UrlA, TRUE, "undefined")

SpecEnv == InitEnv /\ [][NextEnv]_vars

\* Navigations one after the other against a server that answers with any
\* status, redirects or not, sends any body, or is not reached at all
NextHttp ==
  \/ \E el \in BOOLEAN : Construct(el)
  \/ \E r \in {"window", "element"} : UserScroll(r, Pos(1, 2))
  \/ \E u \in Urls :
       (nVisits < MaxHttpVisits /\ inflight = {}) /\ onClick(Click(u, "undefined"))
  \/ \E d \in {-1, 1} : (nVisits < MaxHttpVisits /\ inflight = {}) /\ onPopState(d)
  \/ \E o \in ScrollOptions :
       /\ nVisits < MaxHttpVisits /\ inflight = {}
       /\ visitPop(pathAndSearch(history[idx].url), o)
  \/ /\ inflight = {} /\ \A i \in 1..Len(history) : HasRestorationId(history[i].state)
     /\ fragmentNavigation(<<"x">>)
  \/ \E v \in inflight : visitReject(v)
  \/ \E v \in inflight, html \in Htmls :
       \E r \in AnyResponses(v.input), ids \in Swapped(html) : visitComplete(v, r, html, ids)

SpecHttp == Init /\ [][NextHttp]_vars

\* Callers subscribe and unsubscribe handlers while navigations to "/a" run,
\* one after the other
NextEvents ==
  \/ Construct(FALSE)
  \/ \E t \in EventTypes, h \in Handlers :
       /\ <<t, h>> \in returned \/ Cardinality(returned) < MaxSubscriptions
       /\ on(t, h)
  \/ \E t \in EventTypes, h \in Handlers : off(t, h)
  \/ \E t \in EventTypes, h \in Handlers : unsubscribe(t, h)
  \/ (nVisits < MaxEventVisits /\ inflight = {}) /\ navigate(UrlA, "undefined")
  \/ \E v \in inflight : visitReject(v)
  \/ \E v \in inflight, html \in Htmls :
       \E r \in {x \in Responses(v.input) : ~x.redirected} :
         visitComplete(v, r, html, docIds)

SpecEvents == Init /\ [][NextEvents]_vars

\* One click or one submit, of any kind, dispatched on the page at "/a?p"
UrlAP == <<"a", "?", "p">>
Hrefs ==
  {Absent, Present(<<>>), Present(UrlA), Present(UrlBS), Present(UrlAP),
   Present(<<"#", "s">>), Present(<<"/", "/", "h">>), Present(<<"h", ":", "a">>),
   Present(<<"a", "8", ":", "1">>), Present(<<"/", "a", ":", "b">>),
   Present(<<"1", ":", "a">>)}
Targets == {"", "_self", "_SELF", "_blank"}
Links ==
  {Link(h, "", FALSE, <<>>, "undefined") : h \in Hrefs}
    \cup {Link(Present(UrlBS), t, d, r, s) :
            t \in Targets, d \in BOOLEAN, s \in ScrollOptions,
            r \in {<<>>, <<"external">>, <<"nofollow", " ", "external">>, <<"EXTERNAL">>,
                   <<"externals">>}}
    \cup {El("none", Absent, "", FALSE, <<>>, "undefined", "", <<>>)}
Mice ==
  {Mouse(dp, b, m, c, s, a) :
     dp \in BOOLEAN, b \in {0, 1, 2}, m \in BOOLEAN, c \in BOOLEAN, s \in BOOLEAN,
     a \in BOOLEAN}
ClickEvents ==
  {DomEvent("click", PlainMouse, l, NoSubmitter) : l \in Links}
    \cup {DomEvent("click", m, Link(h, "", FALSE, <<>>, "undefined"), NoSubmitter) :
            m \in Mice, h \in {Present(UrlA), Present(<<"/", "/", "h">>)}}

Actions ==
  {Absent, Present(<<>>), Present(UrlA), Present(UrlAP), Present(<<"a", "#", "s">>),
   Present(<<"#", "s">>), Present(<<"/", "/", "h">>), Present(<<"h", ":", "a">>)}
FieldLists ==
  LET k == Field(<<"k">>, <<"1">>, FALSE)
      n == Field(<<"n">>, <<"x", " ", "b">>, FALSE)
      f == Field(<<"f">>, <<>>, TRUE)
  IN {<<>>, <<k>>, <<k, n>>, <<f, k>>}
Submitters ==
  {NoSubmitter, Submitter("button", <<"s">>, <<"1">>), Submitter("button", <<>>, <<"1">>),
   Submitter("input", <<"s">>, <<"1">>)}
Forms ==
  {Form(a, "", m, f, "undefined") : a \in Actions, m \in {"get", "post"}, f \in FieldLists}
    \cup {Form(a, t, "post", <<>>, "preserve") : a \in {Absent, Present(UrlA)}, t \in Targets}
SubmitEvents == {DomEvent("submit", PlainMouse, f, s) : f \in Forms, s \in Submitters}

InitDom ==
  /\ constructed = FALSE
  /\ nativeRestore = "auto"
  /\ history = <<[url |-> UrlAP, state |-> Null, eid |-> 1]>>
  /\ storage = NoItem
  /\ idx = 1
  /\ nextEid = 2
  /\ positions = <<>>
  /\ currentId = 0
  /\ nextId = 1
  /\ scrollElement = FALSE
  /\ winPos = Pos(0, 0)
  /\ elPos = Pos(0, 0)
  /\ docIds = {}
  /\ inflight = {}
  /\ nVisits = 0
  /\ effects = <<>>
  /\ leftAt = <<>>
  /\ nLoads = 0
  /\ listeners = NoListeners
  /\ returned = {}
  /\ mountRoot = PlainRoot
  /\ container = NoElement
  /\ event \in ClickEvents \cup SubmitEvents
  /\ loading = FALSE
  /\ mercure = NoMercure

NextDom ==
  \/ Construct(FALSE)
  \/ event.type = "click" /\ nVisits < MaxDomVisits /\ onClick(event)
  \/ event.type = "submit" /\ nVisits < MaxDomVisits /\ onSubmit(event)

SpecDom == InitDom /\ [][NextDom]_vars

\* An App built on a mount element anywhere in a document: below up to
\* MaxDepth nested elements of any overflow inside body, with or without a
\* data-scroll-container attribute whose selector finds an element
RECURSIVE Chains(_)
Chains(d) ==
  IF d = 0 THEN {<<>>}
  ELSE Chains(d - 1) \cup
       {Append(c, Ancestor(IF d = 1 THEN "p1" ELSE IF d = 2 THEN "p2" ELSE "p3", o, FALSE)) :
          c \in {x \in Chains(d - 1) : Len(x) = d - 1},
          o \in {"visible", "hidden", "auto", "scroll"}}
MountRoots ==
  {Root(a # NoElement, a, Append(c, Ancestor("body", o, TRUE)), w) :
     a \in {Scroller, "p2", NoElement}, c \in Chains(MaxDepth), o \in {"visible", "auto"},
     w \in BOOLEAN}

InitApp ==
  /\ constructed = FALSE
  /\ nativeRestore = "auto"
  /\ history = <<[url |-> UrlA, state |-> Null, eid |-> 1]>>
  /\ storage = NoItem
  /\ idx = 1
  /\ nextEid = 2
  /\ positions = <<>>
  /\ currentId = 0
  /\ nextId = 1
  /\ scrollElement = FALSE
  /\ winPos = Pos(0, 0)
  /\ elPos = Pos(0, 0)
  /\ docIds = {}
  /\ inflight = {}
  /\ nVisits = 0
  /\ effects = <<>>
  /\ leftAt = <<>>
  /\ nLoads = 0
  /\ listeners = NoListeners
  /\ returned = {}
  /\ mountRoot \in MountRoots
  /\ container = NoElement
  /\ event = NoEvent
  /\ loading = FALSE
  /\ mercure = NoMercure

NextApp ==
  \/ newApp
  \/ ~constructed /\ detect
  \/ \E r \in {"window", "element"} : UserScroll(r, Pos(1, 2))
  \/ (nVisits < MaxAppVisits /\ inflight = {}) /\ navigate(UrlA, "undefined")
  \/ \E d \in {-1, 1} : (nVisits < MaxAppVisits /\ inflight = {}) /\ onPopState(d)
  \/ \E v \in inflight, html \in Htmls :
       \E r \in {x \in Responses(v.input) : ~x.redirected} :
         visitComplete(v, r, html, docIds)

SpecApp == InitApp /\ [][NextApp]_vars

\* Navigations to "/b#s" and browser back/forward that overlap, each fetched
\* and rendered, under a RouterProvider that mounts and unmounts
NextOverlap ==
  \/ Construct(FALSE)
  \/ useEffect
  \/ cleanup
  \/ /\ nVisits < MaxOverlapVisits /\ Cardinality(inflight) < MaxInFlight
     /\ navigate(UrlBS, "undefined")
  \/ \E d \in {-1, 1} :
       /\ nVisits < MaxOverlapVisits /\ Cardinality(inflight) < MaxInFlight
       /\ onPopState(d)
  \/ \E v \in inflight, html \in Htmls :
       /\ render(html)
       /\ \E r \in {x \in Responses(v.input) : ~x.redirected} :
            visitComplete(v, r, html, docIds)

SpecOverlap == Init /\ [][NextOverlap]_vars

\* A Mercure instance that is subscribed again and again, to a hub URL with
\* or without a scheme, and closed, while its connections open, fail and
\* deliver messages
NextMercure ==
  \/ \E h \in {<<"h", ":", "x">>, <<"/", "x">>},
        t \in {[isArray |-> FALSE, v |-> <<"t">>], [isArray |-> TRUE, v |-> <<<<"t">>, <<"u">>>>]},
        l \in {<<>>, <<"8">>} :
       /\ Len(mercure.sources) < MaxSources
       /\ subscribe([hubUrl |-> h, topics |-> t, lastEventId |-> l,
                     withCredentials |-> FALSE])
  \/ close
  \/ onopen
  \/ \E fatal \in BOOLEAN : onerror(fatal)
  \/ \E html \in Htmls : onmessage(html)

SpecMercure == Init /\ [][NextMercure]_vars

----------------------------------------------------------------------------
(* Reading the calls of the handler that ran last *)

Called(log, op) == \E i \in 1..Len(log) : log[i].op = op
Emitted(log, type) == \E i \in 1..Len(log) : log[i].op = "emit" /\ log[i].arg = type
CountOf(log, op) == Cardinality({i \in 1..Len(log) : log[i].op = op})

\* The handler was the rest of a visit whose render returned true / false
Rendered(log, res) == \E i \in 1..Len(log) : log[i].op = "render" /\ log[i].arg = res

\* The URL visit() computed as finalUrl, as its last emit carried it
FinalUrl(log) == log[Len(log)].url

\* The fragment of url names an element among ids
FragmentIn(url, ids) == extractHash(url) # <<>> /\ extractHash(url) \in ids

\* history.state.restorationId of entry e, as a set (empty when absent)
RidOf(e) == IF HasRestorationId(e.state) THEN {e.state.obj["restorationId"]} ELSE {}

\* The visits that left the set of visits in flight in this step
Ended == inflight \ inflight'

----------------------------------------------------------------------------
(* C1: a visit whose render returns false calls neither pushState/replaceState
   nor push(), pop(), scroll(): the history stack, its current entry, the
   current id and the scroll offsets stay as they were; render:failed is
   emitted all the same. *)

C1_FailureIsInert ==
  [][Rendered(effects', "false") =>
       /\ history' = history /\ idx' = idx
       /\ currentId' = currentId
       /\ winPos' = winPos /\ elPos' = elPos
       /\ \A op \in {"pushState", "replaceState", "push", "pop", "scroll", "scrollTo",
                     "scrollIntoView"} : ~Called(effects', op)
       /\ Emitted(effects', "render:failed")
       /\ ~Emitted(effects', "render:success")]_vars

\* A push visit and a pop visit have both failed to render, away from the first entry
C1_Witness ==
  /\ Rendered(effects, "false") /\ Emitted(effects, "render:failed")
  /\ Len(history) > 1
  /\ regionPos # Pos(0, 0)

----------------------------------------------------------------------------
(* C2: with navigations one after the other, all rendered, a browser
   back/forward that lands on entry E, whose URL has no fragment naming an
   element of the document, scrolls the region exactly once, to the offset
   the region had when the browser last left E. *)

RegionName == IF scrollElement THEN "element" ELSE "window"

C2_PopRestoresDeparture ==
  [][\A v \in Ended :
       (~v.pushState /\ Rendered(effects', "true")
          /\ ~FragmentIn(history[idx].url, docIds'))
       => /\ history[idx].eid \in DOMAIN leftAt
          /\ CountOf(effects', "scrollTo") = 1
          /\ \E i \in 1..Len(effects') :
               effects'[i] = Call("scrollTo", RegionName, leftAt[history[idx].eid].x,
                                  leftAt[history[idx].eid].y, <<>>)
          /\ ~Called(effects', "scrollIntoView")
          /\ regionPos' = leftAt[history[idx].eid]]_vars

\* Back on an entry that was left scrolled down while the entry come from was at
\* the top: the offset restored is the one of the entry landed on
C2_Witness ==
  /\ Rendered(effects, "true") /\ Called(effects, "pop")
  /\ idx < Len(history)
  /\ history[idx].eid \in DOMAIN leftAt /\ history[idx + 1].eid \in DOMAIN leftAt
  /\ leftAt[history[idx].eid] = Pos(1, 2)
  /\ leftAt[history[idx + 1].eid] = Pos(0, 0)
  /\ regionPos = Pos(1, 2)
  /\ Called(effects, "scrollTo")

----------------------------------------------------------------------------
(* Inputs the claims about scroll() range over *)

\* The one scroll call found in the document's target element
IntoView == <<Call("scrollIntoView", "target", 0, 0, <<>>)>>

\* The calls of a log that scroll
IsScrollCall(c) == c.op \in {"scrollTo", "scrollIntoView"}
ScrollCalls(log) == SelectSeq(log, IsScrollCall)

\* The entry of a log made by op
EntryOf(log, op) == log[CHOOSE i \in 1..Len(log) : log[i].op = op]

----------------------------------------------------------------------------
(* C3: when the URL given to scroll() has a fragment and an element with that
   id is in the document, scroll() calls that element's scrollIntoView and
   never scrollTo: for a push and for a pop, for every intent, with or
   without a saved offset for the current entry. *)

C3_FragmentWins ==
  (Called(effects, "scroll") /\ FragmentIn(EntryOf(effects, "scroll").url, docIds))
    => /\ ScrollCalls(effects) = IntoView
       /\ \A isPush \in BOOLEAN, b \in ScrollOptions :
            scroll(isPush, b, EntryOf(effects, "scroll").url, currentId, positions,
                   docIds, scrollElement) = IntoView

\* A pop visit to "/b#s" found the element although an offset is saved for the entry
C3_Witness ==
  /\ Called(effects, "pop") /\ Called(effects, "scrollIntoView")
  /\ currentId \in DOMAIN positions
  /\ EntryOf(effects, "scroll").url = UrlBS

----------------------------------------------------------------------------
(* C4: a browser back/forward that lands on an entry whose URL has a fragment
   naming an element of the document scrolls that element into view instead
   of restoring the saved offset. *)

C4_PopstateFragmentWins ==
  [][\A v \in Ended :
       (v.via = "popstate" /\ Rendered(effects', "true")
          /\ FragmentIn(history[idx].url, docIds'))
       => (Called(effects', "scrollIntoView") /\ ~Called(effects', "scrollTo"))]_vars

----------------------------------------------------------------------------
(* C5: a fragment that names no element of the document changes nothing:
   scroll(isPush, intent, url#missing) makes the calls scroll(isPush, intent,
   url) makes, which are a restore on a pop with a saved offset, none on a pop
   without, none on preserve, (0,0) on any other push. *)

WithoutFragment(isPush, b) ==
  IF ~isPush
  THEN IF currentId \in DOMAIN positions
       THEN <<Call("scrollTo", RegionName, positions[currentId].x,
                   positions[currentId].y, <<>>)>>
       ELSE <<>>
  ELSE IF b = "preserve" THEN <<>>
       ELSE <<Call("scrollTo", RegionName, 0, 0, <<>>)>>

C5_MissingFragmentFallsThrough ==
  Called(effects, "scroll") =>
    LET e == EntryOf(effects, "scroll")
        isPush == Called(effects, "push")
    IN  (extractHash(e.url) # <<>> /\ extractHash(e.url) \notin docIds)
          => /\ ScrollCalls(effects) = WithoutFragment(isPush, e.arg)
             /\ ScrollCalls(effects)
                  = scroll(isPush, e.arg, pathAndSearch(e.url), currentId, positions,
                           docIds, scrollElement)

\* A push visit to "/b#s" whose page has no element s scrolled to the top
C5_Witness ==
  /\ Called(effects, "pushState") /\ Called(effects, "scroll")
  /\ EntryOf(effects, "scroll").url = UrlBS
  /\ IdS \notin docIds
  /\ Called(effects, "scrollTo")
  /\ regionPos = Pos(0, 0)

----------------------------------------------------------------------------
(* C6: a push visit that renders, with intent top or undefined and a final URL
   whose fragment names no element of the document, scrolls the governing
   region to (0,0), with one scrollTo call, wherever the region was. *)

C6_PushScrollsToTop ==
  [][\A v \in Ended :
       (v.pushState /\ v.scroll \in {"top", "undefined"} /\ Rendered(effects', "true")
          /\ ~FragmentIn(FinalUrl(effects'), docIds'))
       => /\ CountOf(effects', "scrollTo") = 1
          /\ EntryOf(effects', "scrollTo") = Call("scrollTo", RegionName, 0, 0, <<>>)
          /\ ~Called(effects', "scrollIntoView")
          /\ regionPos' = Pos(0, 0)]_vars

\* The region had been scrolled down when the visit was started from a later entry
C6_Witness ==
  /\ Called(effects, "pushState")
  /\ EntryOf(effects, "scroll").arg = "undefined"
  /\ CountOf(effects, "scrollTo") = 1
  /\ EntryOf(effects, "scrollTo") = Call("scrollTo", RegionName, 0, 0, <<>>)
  /\ idx > 1
  /\ history[idx - 1].eid \in DOMAIN leftAt /\ leftAt[history[idx - 1].eid] = Pos(1, 2)
  /\ regionPos = Pos(0, 0)

----------------------------------------------------------------------------
(* C7: a push visit that renders, with intent preserve and a final URL whose
   fragment names no element of the document, makes no scroll call on the
   window or on the scroll element, and both stay where they were. *)

C7_PreserveMakesNoScrollCall ==
  [][\A v \in Ended :
       (v.pushState /\ v.scroll = "preserve" /\ Rendered(effects', "true")
          /\ ~FragmentIn(FinalUrl(effects'), docIds'))
       => /\ ~Called(effects', "scrollTo")
          /\ ~Called(effects', "scrollIntoView")
          /\ winPos' = winPos /\ elPos' = elPos]_vars

\* A preserve push to "/b#s", the element missing, left the region scrolled down
C7_Witness ==
  /\ Called(effects, "pushState")
  /\ EntryOf(effects, "scroll").arg = "preserve"
  /\ EntryOf(effects, "scroll").url = UrlBS
  /\ ~Called(effects, "scrollTo") /\ ~Called(effects, "scrollIntoView")
  /\ regionPos = Pos(1, 2)

----------------------------------------------------------------------------
(* C8: a pop visit that renders on an entry whose restorationId has no offset
   in the table, with a final URL whose fragment names no element of the document,
   makes no scroll call: it does not fall back to (0,0). *)

C8_PopWithoutSavedOffset ==
  [][\A v \in Ended :
       (~v.pushState /\ Rendered(effects', "true")
          /\ RidOf(history[idx]) # {}
          /\ RidOf(history[idx]) \cap DOMAIN positions = {}
          /\ ~FragmentIn(FinalUrl(effects'), docIds'))
       => /\ ~Called(effects', "scrollTo")
          /\ ~Called(effects', "scrollIntoView")
          /\ winPos' = winPos /\ elPos' = elPos]_vars

\* A pop visit rendered on an entry that a concurrent push had just created
C8_Witness ==
  /\ Called(effects, "pop") /\ Called(effects, "scroll")
  /\ currentId \notin DOMAIN positions
  /\ RidOf(history[idx]) = {currentId}
  /\ ~Called(effects, "scrollTo") /\ ~Called(effects, "scrollIntoView")
  /\ regionPos = Pos(1, 2)

----------------------------------------------------------------------------
(* C9: the entry a push visit creates is the current one, its state carries a
   restorationId that differs from the id of the entry left, and right after
   the push the current id of ScrollRestoration is that restorationId. *)

C9_PushedEntryCarriesNewId ==
  Called(effects, "pushState") =>
    /\ idx > 1 /\ idx = Len(history)
    /\ HasRestorationId(history[idx].state)
    /\ RidOf(history[idx]) = {currentId}
    /\ RidOf(history[idx - 1]) \cap RidOf(history[idx]) = {}
    /\ history[idx].url = EntryOf(effects, "pushState").url

\* A second push: the entry left had been created by a push itself
C9_Witness ==
  /\ Called(effects, "pushState")
  /\ idx = 3 /\ Len(history) = 3
  /\ RidOf(history[3]) = {currentId}
  /\ RidOf(history[2]) # {} /\ RidOf(history[2]) # RidOf(history[3])

----------------------------------------------------------------------------
(* C10: constructing ScrollRestoration keeps the number of history entries,
   the position in the stack and the URL; the state of the current entry
   becomes its previous fields, unaltered, plus restorationId, which is the
   previous one when the state had one and a newly generated id otherwise. *)

C10_ConstructorMergesState ==
  [][(~constructed /\ constructed') =>
       LET old == history[idx].state
           new == history'[idx].state
       IN  /\ Len(history') = Len(history) /\ idx' = idx
           /\ history'[idx].url = history[idx].url
           /\ history'[idx].eid = history[idx].eid
           /\ ~new.null
           /\ DOMAIN new.obj = DOMAIN Spread(old) \cup {"restorationId"}
           /\ \A f \in DOMAIN Spread(old) \ {"restorationId"} : new.obj[f] = Spread(old)[f]
           /\ new.obj["restorationId"] =
                (IF HasRestorationId(old) THEN old.obj["restorationId"] ELSE nextId)
           /\ currentId' = new.obj["restorationId"]]_vars

\* Constructed on a first load whose state was the host's {foo: 7}
C10_Witness ==
  /\ constructed
  /\ effects = <<Did("replaceState"), Did("hydrate")>>
  /\ Len(history) = 1
  /\ DOMAIN history[1].state.obj = {"foo", "restorationId"}
  /\ history[1].state.obj["foo"] = 7
  /\ history[1].state.obj["restorationId"] = 1

----------------------------------------------------------------------------
\* The visits that entered the set of visits in flight in this step
Started == inflight' \ inflight

\* The event types a log emits, in order
IsEmit(c) == c.op = "emit"
RECURSIVE TypesOf(_)
TypesOf(log) == IF log = <<>> THEN <<>> ELSE <<Head(log).arg>> \o TypesOf(Tail(log))
EmitsOf(log) == TypesOf(SelectSeq(log, IsEmit))

\* restorationIds of the entries of a history stack
RidsOf(h) == UNION {RidOf(h[i]) : i \in 1..Len(h)}

----------------------------------------------------------------------------
(* C11: a visit emits nav:started, once, when it starts; when its fetch and
   body read have succeeded it emits one render event, render:success if
   render returned true and render:failed if not, and then nav:ended, once. *)

C11_EventOrder ==
  [][/\ Started # {} => EmitsOf(effects') = <<"nav:started">>
     /\ \A v \in Ended :
          /\ Rendered(effects', "true") => EmitsOf(effects') = <<"render:success", "nav:ended">>
          /\ Rendered(effects', "false") => EmitsOf(effects') = <<"render:failed", "nav:ended">>
          /\ EmitsOf(effects') # <<>>
               => (Rendered(effects', "true") \/ Rendered(effects', "false"))]_vars

\* A visit that pushed an entry ended with render:success, one after it with render:failed
C11_Witness ==
  /\ EmitsOf(effects) = <<"render:failed", "nav:ended">>
  /\ Len(history) = 2 /\ idx = 2
  /\ nVisits = 2 /\ inflight = {}

----------------------------------------------------------------------------
(* C12: once the fetch of a visit has settled, by resolving or by rejecting,
   the visit emits nav:ended, so that a flag set on nav:started and cleared on
   nav:ended does not stay set. *)

C12_NavEndedAfterSettle ==
  [][\A v \in Ended : Emitted(effects', "nav:ended")]_vars

----------------------------------------------------------------------------
(* C13: a visit whose fetch or body read rejects rejects to its caller; fetch
   was called once for it, when it started, and is not called again; render,
   pushState, push(), pop() and scroll() are not called, and history, the
   current id, the table and the scroll offsets stay as they were. *)

C13_RejectionPropagates ==
  [][/\ Started # {} => CountOf(effects', "fetch") = 1
     /\ \A v \in Ended :
          ~Called(effects', "render") =>
            /\ effects' = <<Did("reject")>>
            /\ history' = history /\ idx' = idx /\ currentId' = currentId
            /\ positions' = positions /\ docIds' = docIds
            /\ winPos' = winPos /\ elPos' = elPos]_vars

\* A push visit started on a scrolled page has rejected
C13_Witness ==
  /\ effects = <<Did("reject")>>
  /\ nVisits = 1 /\ inflight = {}
  /\ Len(history) = 1
  /\ currentId \in DOMAIN positions /\ positions[currentId] = Pos(1, 2)

----------------------------------------------------------------------------
(* C14: a visit that starts cancels none of the visits in flight, and a visit
   that ends takes no other visit with it; the document is the one the last
   render left; each push visit that renders appends its own entry, whose
   restorationId no other entry carries, and each rendered visit calls scroll(). *)

C14_ConcurrentVisitsAreIndependent ==
  [][/\ Started # {} => (inflight \subseteq inflight' /\ Cardinality(Started) = 1)
     /\ \A v \in Ended :
          /\ inflight' = inflight \ {v}
          /\ Rendered(effects', "false") => docIds' = docIds
          /\ Rendered(effects', "true") =>
               /\ docIds' \in Documents
               /\ CountOf(effects', "scroll") = 1
               /\ v.pushState =>
                    /\ Len(history') = idx + 1 /\ idx' = idx + 1
                    /\ SubSeq(history', 1, idx) = SubSeq(history, 1, idx)
                    /\ RidOf(history'[idx']) # {}
                    /\ RidOf(history'[idx']) \cap RidsOf(history) = {}
                    /\ CountOf(effects', "pushState") = 1]_vars

\* Two push visits that both started on the first entry have both pushed theirs
C14_Witness ==
  /\ Called(effects, "pushState") /\ Called(effects, "scroll")
  /\ inflight = {} /\ nVisits = 2
  /\ Len(history) = 3 /\ idx = 3
  /\ DOMAIN leftAt = {1}
  /\ RidOf(history[2]) # RidOf(history[3])

----------------------------------------------------------------------------
(* C15: a browser back/forward starts visit(location.pathname +
   location.search, GET, false); a pop visit, rendered or not, leaves the
   history stack and the position in it as they were. *)

C15_PopLeavesHistoryAlone ==
  [][/\ \A v \in Started :
          v.via = "popstate" =>
            /\ ~v.pushState
            /\ v.input = pathAndSearch(history'[idx'].url)
            /\ EntryOf(effects', "fetch").url = v.input
            /\ history' = history
     /\ \A v \in Ended :
          (~v.pushState /\ Called(effects', "render")) =>
            (history' = history /\ idx' = idx /\ nextEid' = nextEid)]_vars

\* A back to the first entry has rendered and called pop(), the entry ahead is kept
C15_Witness ==
  /\ Called(effects, "pop") /\ Rendered(effects, "true")
  /\ Len(history) = 2 /\ idx = 1
  /\ RidOf(history[1]) = {currentId}

----------------------------------------------------------------------------
\* This step is the constructor, the beforeunload listener
Constructs == ~constructed /\ effects' # <<>> /\ effects'[1].op = "replaceState"
Unloads == constructed' /\ effects' # <<>> /\ effects'[1].op = "persist"

\* setItem was called in this log and returned
Wrote(log) == Called(log, "setItem") /\ EntryOf(log, "setItem").arg = "ok"

\* Position of the call of op in a log
IndexOf(log, op) == CHOOSE i \in 1..Len(log) : log[i].op = op

\* The stored item is a list of pairs
WellFormed(item) == ~item.blocked /\ item.present /\ ~hydrateError(item)

----------------------------------------------------------------------------
(* C16: when the beforeunload listener has saved offset (X,Y) for the current
   id and written the table, a table hydrated from the item written, starting
   empty, holds (X,Y) for that id, and a pop scroll under that id scrolls to
   (X,Y); a ScrollRestoration constructed after the reload on an entry that
   carries an id takes that id and holds every pair of the item. *)

C16_ReloadRoundTrip ==
  [][/\ (Unloads /\ Wrote(effects')) =>
          LET table == hydrate(<<>>, storage')
          IN  /\ currentId \in DOMAIN table
              /\ table[currentId] = regionPos
              /\ scroll(FALSE, "undefined", UrlA, currentId, table, {}, scrollElement)
                   = doScroll(scrollElement, regionPos.x, regionPos.y)
     /\ (Constructs /\ nLoads > 0 /\ WellFormed(storage) /\ HasRestorationId(HistoryState)) =>
          /\ RidOf(history[idx]) = {currentId'}
          /\ \A i \in 1..Len(storage.raw) :
               /\ storage.raw[i].key \in DOMAIN positions'
               /\ positions'[storage.raw[i].key] = storage.raw[i].pos]_vars

\* After a reload at offset (1,2), the new ScrollRestoration holds (1,2) for its entry
C16_Witness ==
  /\ constructed /\ nLoads = 1
  /\ effects = <<Did("replaceState"), Did("hydrate")>>
  /\ currentId \in DOMAIN positions
  /\ history[idx].eid \in DOMAIN leftAt
  /\ positions[currentId] = Pos(1, 2) /\ leftAt[history[idx].eid] = Pos(1, 2)
  /\ regionPos = Pos(0, 0)

----------------------------------------------------------------------------
(* C17: the beforeunload listener calls save() before setItem, and when
   setItem returns the item written is the list of the pairs of the whole
   table: one pair for each id the table held, hydrated ones included, with
   the offset it held, and for the current id the offset at unload time. *)

C17_PersistWritesWholeTable ==
  [][(Unloads /\ Wrote(effects')) =>
       LET ids == DOMAIN positions \cup {currentId}
           raw == storage'.raw
       IN  /\ IndexOf(effects', "save") < IndexOf(effects', "setItem")
           /\ WellFormed(storage')
           /\ Len(raw) = Cardinality(ids)
           /\ {raw[i].key : i \in 1..Len(raw)} = ids
           /\ \A i \in 1..Len(raw) :
                raw[i].pos = IF raw[i].key = currentId THEN regionPos
                             ELSE positions[raw[i].key]]_vars

\* The item written holds the pair hydrated from the earlier load and, for the
\* current id, the offset at unload, after a visit had saved another one
C17_Witness ==
  /\ effects # <<>> /\ effects[1].op = "persist" /\ Wrote(effects)
  /\ nLoads = 0 /\ nVisits = 1 /\ Len(history) = 1
  /\ currentId = 1
  /\ storage.raw = <<Entry(0, Pos(1, 2)), Entry(1, Pos(1, 2))>>
  /\ regionPos = Pos(1, 2)

----------------------------------------------------------------------------
(* C18: a ScrollRestoration constructed when the stored item is missing or
   corrupt (not JSON, or JSON that is not a list of [id, offset] pairs) is
   constructed without an exception and with an empty table, so that a pop
   scroll under any id makes no call. *)

C18_CorruptStoreIsNoData ==
  [][(Constructs /\ ~storage.blocked /\ (~storage.present \/ hydrateError(storage))) =>
       /\ constructed'
       /\ ~Called(effects', "throw")
       /\ positions' = <<>>
       /\ \A id \in 0..nextId' :
            scroll(FALSE, "undefined", UrlA, id, positions', {}, scrollElement') = <<>>]_vars

----------------------------------------------------------------------------
(* C19: when sessionStorage throws on the read of the constructor or on the
   write of the beforeunload listener, neither lets the exception out: the
   constructor completes with the table as it was, the listener with save()
   done and the item as it was; visits go on working with the table in
   memory: a rendered push scrolls to the top and pushes, a rendered pop
   restores the offset the table holds. *)

C19_StorageFailureIsSwallowed ==
  [][/\ Constructs =>
          /\ constructed' /\ ~Called(effects', "throw")
          /\ storage.blocked => positions' = <<>>
     /\ Unloads =>
          /\ ~Called(effects', "throw")
          /\ (Called(effects', "setItem") /\ ~Wrote(effects')) =>
               /\ storage' = storage
               /\ positions' = save(positions, currentId, scrollElement, winPos, elPos)
     /\ storage.blocked =>
          \A v \in Ended :
            Rendered(effects', "true") =>
              /\ v.pushState =>
                   (Called(effects', "pushState")
                      /\ ScrollCalls(effects') = doScroll(scrollElement, 0, 0))
              /\ (~v.pushState /\ currentId' \in DOMAIN positions) =>
                   ScrollCalls(effects')
                     = doScroll(scrollElement, positions[currentId'].x,
                                positions[currentId'].y)]_vars

\* With sessionStorage throwing, after a reload whose write threw, a push and a
\* back have restored the offset saved in memory
C19_Witness ==
  /\ storage.blocked /\ constructed /\ nLoads = 1
  /\ Called(effects, "pop")
  /\ ScrollCalls(effects) = <<Call("scrollTo", RegionName, 1, 2, <<>>)>>
  /\ regionPos = Pos(1, 2)

----------------------------------------------------------------------------
(* C20: save() lets no exception out, also when reading the scroll offset
   throws, and the visit() that called it goes on to emit nav:started and to
   call fetch. *)

C20_SaveNeverThrows ==
  [][(effects' # <<>> /\ effects'[1].op = "save") =>
       /\ ~Called(effects', "throw")
       /\ Emitted(effects', "nav:started")
       /\ Called(effects', "fetch")]_vars

----------------------------------------------------------------------------
(* C21: with a scroll element E, save() reads E.scrollLeft/scrollTop and every
   restore or top scroll is E.scrollTo(x, y) and moves E; window.scrollX/Y is
   never read, window.scrollTo never called and the window never moved, over
   any sequence of save, push, pop and scroll. *)
C21_ElementOnly ==
  [][scrollElement =>
       /\ \A i \in 1..Len(effects') :
            effects'[i].op \in {"read", "scrollTo"} => effects'[i].arg = "element"
       /\ Started # {} => positions'[currentId] = elPos
       /\ Called(effects', "scrollTo") =>
            elPos' = Pos(EntryOf(effects', "scrollTo").x, EntryOf(effects', "scrollTo").y)
       /\ winPos' = winPos]_vars

\* A pop has restored the offset (1, 2) that save() read from E, through E.scrollTo
C21_Witness ==
  /\ scrollElement
  /\ \E i \in 1..Len(effects) : effects[i] = Call("scrollTo", "element", 1, 2, <<>>)
  /\ elPos = Pos(1, 2)
  /\ winPos = Pos(0, 0)
  /\ \E k \in DOMAIN positions : positions[k] = Pos(1, 2)

----------------------------------------------------------------------------
Scrollable(root) ==
  {i \in 1..Len(root.ancestors) :
     /\ root.view
     /\ ~root.ancestors[i].isBody /\ root.ancestors[i].overflowY \in {"auto", "scroll"}}
Nearest(root) == root.ancestors[CHOOSE i \in Scrollable(root) : \A j \in Scrollable(root) : i <= j]
ContainerOf(root) ==
  IF root.hasAttr THEN {root.selected}
  ELSE IF Scrollable(root) # {} THEN {Nearest(root).name}
  ELSE {}

(* C22: when the mount root carries data-scroll-container and its selector
   finds element E, or, without the attribute, the nearest ancestor below body
   with overflow-y auto or scroll is E, the App built on that root hands E to
   the scroll restoration, reads and scrolls E on navigation and never calls
   window.scrollTo. *)
C22_AppScrollsContainer ==
  constructed =>
    \A E \in ContainerOf(mountRoot) :
      /\ container = E
      /\ scrollElement
      /\ \A i \in 1..Len(effects) :
           effects[i].op \in {"read", "scrollTo"} => effects[i].arg = "element"

\* A navigation has scrolled the grandparent, found by the walk past a parent
\* that does not scroll, to the top
C22_Witness ==
  /\ constructed /\ ~mountRoot.hasAttr
  /\ Len(mountRoot.ancestors) = 3
  /\ mountRoot.ancestors[1].overflowY = "visible"
  /\ mountRoot.ancestors[2].overflowY = "scroll"
  /\ container = "p2"
  /\ \E i \in 1..Len(effects) : effects[i] = Call("scrollTo", "element", 0, 0, <<>>)
  /\ elPos = Pos(0, 0)

----------------------------------------------------------------------------
UrlsOf(log, ops) == {log[i].url : i \in {j \in 1..Len(log) : log[j].op \in ops}}
EventUrls(log) ==
  {log[i].url : i \in {j \in 1..Len(log) :
                         log[j].op = "emit" /\ log[j].arg # "nav:started"}}

(* C24: the final URL of a visit is response.url when the response was
   redirected and the requested URL otherwise; it is the URL of the pushed
   history entry, the URL given to scroll(), the finalUrl of render:success,
   render:failed and nav:ended, and the finalUrl visit() returns. *)
C24_FinalUrl ==
  [][\A v \in Ended :
       Called(effects', "response") =>
         LET r == EntryOf(effects', "response")
             final == IF r.arg = "redirected" THEN r.url ELSE v.input
         IN /\ UrlsOf(effects', {"pushState", "scroll", "return"}) \subseteq {final}
            /\ Called(effects', "return")
            /\ EventUrls(effects') = {final}
            /\ Called(effects', "pushState") => history'[idx'].url = final]_vars

\* A visit of "b#s" that was not redirected: response.url is "b", the entry
\* pushed and the value returned are "b#s"
C24_Witness ==
  /\ \E i \in 1..Len(effects) : effects[i] = Call("response", "direct", 200, 0, <<"b">>)
  /\ \E i \in 1..Len(effects) : effects[i] = Call("pushState", "", 0, 0, UrlBS)
  /\ \E i \in 1..Len(effects) : effects[i] = Call("return", "true", 0, 0, UrlBS)
  /\ Emitted(effects, "render:success")
  /\ history[idx].url = UrlBS

----------------------------------------------------------------------------
(* C25: a response with a non-OK status is no error: visit() resolves and
   hands the body to render; when the body holds the mount element the visit
   renders, and a push visit pushes the entry for the final URL and calls
   scroll(), a pop visit calls pop() and scroll(), as for an OK response.
   visit() rejects only when fetch (or the body read) rejected: no response
   was logged then. *)
C25_StatusIsNoError ==
  [][\A v \in Ended :
       /\ Called(effects', "reject") => ~Called(effects', "response")
       /\ (Called(effects', "response") /\ EntryOf(effects', "response").x # 200) =>
            /\ ~Called(effects', "reject") /\ ~Called(effects', "throw")
            /\ Called(effects', "return") /\ Called(effects', "render")
            /\ EntryOf(effects', "text").arg = "mount" =>
                 /\ Rendered(effects', "true")
                 /\ EntryOf(effects', "return").arg = "true"
                 /\ Called(effects', "scroll")
                 /\ v.pushState =>
                      /\ Called(effects', "push") /\ Called(effects', "pushState")
                      /\ idx' = idx + 1 /\ Len(history') = idx'
                      /\ history'[idx'].url = EntryOf(effects', "return").url
                 /\ ~v.pushState => Called(effects', "pop") /\ history' = history
            /\ EntryOf(effects', "text").arg = "no mount" =>
                 Rendered(effects', "false") /\ history' = history]_vars

\* A 404 whose body holds the mount element was rendered, pushed and scrolled to the top
C25_Witness ==
  /\ \E i \in 1..Len(effects) : effects[i] = Call("response", "direct", 404, 0, UrlA)
  /\ \E i \in 1..Len(effects) : effects[i] = Call("pushState", "", 0, 0, UrlA)
  /\ \E i \in 1..Len(effects) : effects[i].op = "scrollTo" /\ effects[i].x = 0 /\ effects[i].y = 0
  /\ Rendered(effects, "true") /\ Called(effects, "return")
  /\ idx = 2

----------------------------------------------------------------------------
RECURSIVE RunFrom(_, _)
RunFrom(log, j) ==
  IF j > Len(log) \/ log[j].op # "handler" THEN <<>>
  ELSE <<log[j].arg>> \o RunFrom(log, j + 1)
Registered(ls) == {<<t, h>> \in EventTypes \X Handlers : Has(ls[t], h)}
Subscribed(log) == {<<log[1].url[1], log[1].arg>>}

(* C26: a handler registered with on(type, h) is invoked, once, on every
   later emit of that type and on no emit of another type, until off(type, h)
   or the function on() returned is called; from then on it is not invoked;
   removing one handler leaves every other registration as it was.  Stated
   step by step: every emit invokes exactly the handlers registered for its
   type at that moment; on() registers its handler and unregisters nothing;
   off() and the returned function unregister exactly their handler; no other
   step changes a registration. *)
C26_Subscriptions ==
  [][/\ \A i \in 1..Len(effects') :
          /\ effects'[i].op = "emit" => RunFrom(effects', i + 1) = listeners[effects'[i].arg]
          /\ effects'[i].op = "handler" => i > 1 /\ effects'[i - 1].op \in {"emit", "handler"}
     /\ \A t \in EventTypes : Cardinality({h \in Handlers : Has(listeners'[t], h)}) = Len(listeners'[t])
     /\ IF effects' # <<>> /\ effects'[1].op = "on"
        THEN Registered(listeners') = Registered(listeners) \cup Subscribed(effects')
        ELSE IF effects' # <<>> /\ effects'[1].op = "off"
        THEN Registered(listeners') = Registered(listeners) \ Subscribed(effects')
        ELSE listeners' = listeners]_vars

\* h1 and h2 were subscribed to nav:ended, h1 was removed, and the nav:ended
\* of a visit invoked h2 and not h1
C26_Witness ==
  /\ returned = {<<"nav:ended", "h1">>, <<"nav:ended", "h2">>}
  /\ listeners["nav:ended"] = <<"h2">>
  /\ \E i \in 1..Len(effects) :
       /\ effects[i].op = "emit" /\ effects[i].arg = "nav:ended"
       /\ RunFrom(effects, i + 1) = <<"h2">>
  /\ CountOf(effects, "handler") = 1

----------------------------------------------------------------------------
FirstColon(s) == CHOOSE k \in 1..Len(s) : s[k] = ":" /\ \A j \in 1..(k - 1) : s[j] # ":"
HasUrlScheme(s) ==
  /\ includes(s, ":") /\ FirstColon(s) > 1
  /\ s[1] \in Letters
  /\ \A j \in 2..(FirstColon(s) - 1) : s[j] \in Letters \cup Digits \cup {"+", "-", "."}
RelativeUrl(attr) ==
  /\ attr.has /\ Len(attr.v) > 0
  /\ attr.v[1] # "#"
  /\ ~(Len(attr.v) >= 2 /\ attr.v[1] = "/" /\ attr.v[2] = "/")
  /\ ~HasUrlScheme(attr.v)
ShouldIntercept(e) ==
  /\ ~e.defaultPrevented /\ e.button = 0
  /\ ~e.metaKey /\ ~e.ctrlKey /\ ~e.shiftKey /\ ~e.altKey
  /\ e.el.tag = "a" /\ RelativeUrl(e.el.attr)
  /\ e.el.target \in {"", "_self", "_SELF"}
  /\ ~e.el.download
  /\ \A i \in 1..Len(e.el.rel) : e.el.rel[i] \notin {"external", "EXTERNAL"}

(* C27: onClick prevents the default and calls visit(href, GET, push = true,
   the link's data-scroll) exactly when the click is not default-prevented,
   uses the primary button without meta, ctrl, shift or alt, is on an <a>
   whose href is relative (not empty, not starting with "#" or "//", without
   a URL scheme), whose target is empty or _self, which has no download
   attribute and no rel holding the word external; in every other case it
   neither prevents the default nor calls visit. *)
C27_ClickInterception ==
  [][(constructed /\ event.type = "click") =>
       IF ShouldIntercept(event)
       THEN /\ Called(effects', "preventDefault")
            /\ Cardinality(Started) = 1
            /\ \A v \in Started :
                 /\ v.input = event.el.attr.v /\ v.init.method = "GET"
                 /\ v.pushState /\ v.scroll = event.el.scroll
            /\ EntryOf(effects', "fetch").url = event.el.attr.v
            /\ EntryOf(effects', "fetch").arg = "GET"
       ELSE /\ ~Called(effects', "preventDefault") /\ ~Called(effects', "fetch")
            /\ inflight' = inflight]_vars

\* A plain click on <a href="b#s" target="_SELF" rel="externals" data-scroll="preserve">
\* was taken over and its visit is in flight
C27_Witness ==
  /\ event = DomEvent("click", PlainMouse,
                      Link(Present(UrlBS), "_SELF", FALSE, <<"externals">>, "preserve"),
                      NoSubmitter)
  /\ effects # <<>> /\ effects[1] = Did("preventDefault")
  /\ \E v \in inflight : v.input = UrlBS /\ v.scroll = "preserve" /\ v.pushState

----------------------------------------------------------------------------
(* Reading a URL: its path, and its query (what follows the first "?" that
   stands before any "#", up to the "#") *)
IndexOfChar(s, c) ==
  IF includes(s, c) THEN CHOOSE k \in 1..Len(s) : s[k] = c /\ \A j \in 1..(k - 1) : s[j] # c
  ELSE 0
BeforeHash(url) == IF includes(url, "#") THEN SubSeq(url, 1, IndexOfChar(url, "#") - 1) ELSE url
PathOf(url) ==
  IF includes(BeforeHash(url), "?")
  THEN SubSeq(url, 1, IndexOfChar(url, "?") - 1) ELSE BeforeHash(url)
QueryOf(url) ==
  IF includes(BeforeHash(url), "?")
  THEN Present(SubSeq(BeforeHash(url), IndexOfChar(url, "?") + 1, Len(BeforeHash(url))))
  ELSE Absent

\* The URL a request for `input` goes to from the page at `base`
FetchUrl(input, base) ==
  IF input # <<>> /\ input[1] = "?" THEN PathOf(base) \o BeforeHash(input)
  ELSE BeforeHash(input)

SubmitMethod == IF event.el.method = "post" THEN "POST" ELSE "GET"
StringFields == SelectSeq(event.el.fields, LAMBDA f : ~f.file)

(* C28: for an intercepted submit of a form with an action, method GET sends
   the form's string fields as the query of the action URL, after the query
   the action has already and joined to it with "&", and sends no body; any
   other method requests the action unchanged with the form's FormData as
   body.  (Forms submitted by no control, so that the data are the fields.) *)
C28_FormRequest ==
  \A v \in inflight :
    (event.type = "submit" /\ event.el.attr.has /\ event.submitter.kind = "none") =>
      LET action == event.el.attr.v
          q == toString(StringFields)
      IN IF SubmitMethod = "GET"
         THEN /\ v.init.method = "GET" /\ v.init.body = Null
              /\ PathOf(v.input) = PathOf(action)
              /\ QueryOf(v.input) =
                   (IF q = <<>> THEN QueryOf(action)
                    ELSE IF QueryOf(action).has THEN Present(QueryOf(action).v \o <<"&">> \o q)
                    ELSE Present(q))
         ELSE /\ v.init.method = SubmitMethod
              /\ v.input = action
              /\ v.init.body = Obj(event.el.fields)

EndsWith(s, t) == Len(s) >= Len(t) /\ SubSeq(s, Len(s) - Len(t) + 1, Len(s)) = t
(* C29: when the control that submitted the form has a name, its name/value
   pair is part of the submitted data, last in the query for GET and in the
   body otherwise, whatever kind of control it is. *)
C29_SubmitterIncluded ==
  \A v \in inflight :
    (event.type = "submit" /\ event.submitter.kind # "none" /\ event.submitter.name # <<>>) =>
      IF SubmitMethod = "GET"
      THEN EndsWith(v.input, urlencode(event.submitter.name) \o <<"=">>
                               \o urlencode(event.submitter.value))
      ELSE /\ ~v.init.body.null
           /\ \E i \in 1..Len(v.init.body.obj) :
                v.init.body.obj[i] = Field(event.submitter.name, event.submitter.value, FALSE)

LeftAlone(form) ==
  \/ form.target \notin {"", "_self", "_SELF"}
  \/ /\ form.attr.has /\ form.attr.v # <<>>
     /\ \/ HasUrlScheme(form.attr.v)
        \/ form.attr.v[1] = "#"
        \/ Len(form.attr.v) >= 2 /\ form.attr.v[1] = "/" /\ form.attr.v[2] = "/"
Location == pathAndSearch(history[idx].url)

(* C30: a submit is left alone (no preventDefault, no visit) when the form's
   action is absolute, protocol-relative or a fragment, or its target is set
   and is not _self; a form without action attribute is requested from the
   current location, pathname + search, with the GET query appended. *)
C30_SubmitFilterAndNoAction ==
  event.type = "submit" =>
    /\ LeftAlone(event.el) => inflight = {} /\ ~Called(effects, "preventDefault")
    /\ \A v \in inflight :
         (~event.el.attr.has /\ event.submitter.kind = "none") =>
           LET q == toString(StringFields) IN
           FetchUrl(v.input, Location) =
             (IF SubmitMethod = "GET" /\ q # <<>>
              THEN Location \o (IF includes(Location, "?") THEN <<"&">> ELSE <<"?">>) \o q
              ELSE Location)

----------------------------------------------------------------------------
(* C31: a visit that is not a push and renders, whatever intent it was called
   with ("top" and "preserve" included), on an entry whose current id has a
   saved offset and with a final URL whose fragment names no element of the
   document, scrolls the region exactly once, to that saved offset. *)

C31_PopIgnoresIntent ==
  [][\A v \in Ended :
       (~v.pushState /\ Rendered(effects', "true")
          /\ currentId' \in DOMAIN positions
          /\ ~FragmentIn(FinalUrl(effects'), docIds'))
       => /\ CountOf(effects', "scrollTo") = 1
          /\ \E i \in 1..Len(effects') :
               effects'[i] = Call("scrollTo", RegionName, positions[currentId'].x,
                                  positions[currentId'].y, <<>>)
          /\ ~Called(effects', "scrollIntoView")
          /\ regionPos' = positions[currentId']]_vars

\* A visit with pushState false and intent "top" or "preserve" was rendered
\* and the region was put back to the saved offset (1, 2)
C31_Witness ==
  /\ Called(effects, "pop")
  /\ \E i \in 1..Len(effects) :
       effects[i].op = "scroll" /\ effects[i].arg \in {"top", "preserve"}
  /\ \E i \in 1..Len(effects) :
       effects[i] = Call("scrollTo", RegionName, 1, 2, <<>>)
  /\ regionPos = Pos(1, 2)

----------------------------------------------------------------------------
(* C32: a visit that is not a push, called for the location of the current
   entry while no other visit is in flight (the refetch), leaves the scroll
   region, when it has rendered, at the offset the user had it at just before,
   also when the user scrolled between its start and its completion. *)

C32_RefetchKeepsPosition ==
  [][\A v \in Ended :
       (~v.pushState /\ v.via = "call" /\ inflight = {v}
          /\ v.input = pathAndSearch(history[idx].url)
          /\ RidOf(history[idx]) = {currentId}
          /\ Rendered(effects', "true"))
       => regionPos' = regionPos]_vars

----------------------------------------------------------------------------
(* C33: detectScrollContainer(root, doc) returns the nearest ancestor of root
   below body whose computed overflow-y is auto or scroll, and null when there
   is none; ancestors with overflow-y hidden or visible, and body, are passed
   over. *)

C33_NearestScrollableAncestor ==
  \A i \in 1..Len(effects) :
    effects[i].op = "detectScrollContainer"
    => /\ Scrollable(mountRoot) # {} => effects[i].arg = Nearest(mountRoot).name
       /\ Scrollable(mountRoot) = {} => effects[i].arg = NoElement
       /\ \A j \in 1..Len(mountRoot.ancestors) :
            effects[i].arg = mountRoot.ancestors[j].name
            => /\ mountRoot.ancestors[j].overflowY \in {"auto", "scroll"}
               /\ \A k \in 1..(j - 1) :
                    mountRoot.ancestors[k].overflowY \in {"hidden", "visible"}

\* The grandparent was returned for a root whose parent has overflow-y hidden
C33_Witness ==
  /\ effects = <<Call("detectScrollContainer", "p2", 0, 0, <<>>)>>
  /\ mountRoot.ancestors[1].overflowY = "hidden"
  /\ mountRoot.ancestors[2].overflowY = "auto"

----------------------------------------------------------------------------
(* The calls of a log by name, the calls of subscribed handlers left out *)
Names(log) ==
  LET own == SelectSeq(log, LAMBDA c : c.op \notin {"handler", "preventDefault",
                                                     "stopPropagation"})
  IN  [i \in 1..Len(own) |-> own[i].op]

(* C35: a push visit that renders makes its calls in this order: save() (which
   reads the offset), nav:started, fetch; then, once the response is there,
   the body read, render, push() and history.pushState, scroll() with the
   scroll call it makes, render:success, nav:ended.  save() stores the offset
   of the region under the id of the entry being left while that id is still
   the current one, and scroll() runs when the new entry is the current one. *)
C35_PushVisitOrder ==
  [][/\ \A v \in Started :
          v.pushState
          => /\ Names(effects') = <<"save", "read", "emit", "fetch">>
             /\ EmitsOf(effects') = <<"nav:started">>
             /\ RidOf(history[idx]) = {currentId}
             /\ currentId \in DOMAIN positions' /\ positions'[currentId] = regionPos
             /\ currentId' = currentId /\ history' = history /\ idx' = idx
     /\ \A v \in Ended :
          (v.pushState /\ Rendered(effects', "true"))
          => /\ \E call \in {<<>>, <<"scrollTo">>, <<"scrollIntoView">>} :
                  Names(effects') =
                    <<"response", "text", "render", "push", "pushState", "scroll">>
                      \o call \o <<"emit", "emit", "return">>
             /\ EmitsOf(effects') = <<"render:success", "nav:ended">>
             /\ idx' = idx + 1 /\ Len(history') = idx'
             /\ currentId' # currentId /\ RidOf(history'[idx']) = {currentId'}
             /\ positions' = positions /\ currentId \in DOMAIN positions]_vars

\* A push visit has ended with a scroll to the top; the offset (1, 2) of the
\* entry left is in the table under that entry's id
C35_Witness ==
  /\ Called(effects, "pushState") /\ Called(effects, "scrollTo")
  /\ Emitted(effects, "nav:ended")
  /\ idx > 1 /\ RidOf(history[idx]) = {currentId}
  /\ \E id \in RidOf(history[idx - 1]) :
       id # currentId /\ id \in DOMAIN positions /\ positions[id] = Pos(1, 2)

----------------------------------------------------------------------------
(* C36: while a ScrollRestoration object lives (from its construction, which
   hydrates the table, through save, push, pop, scroll, persist and visit) no
   id leaves the table: its set of ids only grows, it holds one offset per id,
   and a step changes at most the offset under the id that is current; that
   offset becomes the one of the scroll region. *)

C36_TableOnlyGrows ==
  [][constructed'
       => /\ DOMAIN positions \subseteq DOMAIN positions'
          /\ constructed
               => /\ DOMAIN positions' \subseteq DOMAIN positions \cup {currentId}
                  /\ \A k \in DOMAIN positions \ {currentId} : positions'[k] = positions[k]
                  /\ positions' # positions => positions'[currentId] = regionPos]_vars

\* save() has just added the current id to a table that holds the offset
\* (1, 2) of another entry
C36_Witness ==
  /\ constructed /\ Called(effects, "save")
  /\ currentId \in DOMAIN positions
  /\ \E k \in DOMAIN positions \ {currentId} : positions[k] = Pos(1, 2)

----------------------------------------------------------------------------
(* C37: whenever no visit is in flight (every popstate event handled, its
   visit ended), the current id of ScrollRestoration is the restorationId of
   the browser's current history entry, after any sequence of push visits,
   back/forward visits and render failures (every entry of the history being
   one the router has made or adopted). *)

C37_CurrentIdFollowsBrowser ==
  (/\ constructed /\ inflight = {}
   /\ \A i \in 1..Len(history) : HasRestorationId(history[i].state))
  => RidOf(history[idx]) = {currentId}

----------------------------------------------------------------------------
(* C38: a visit that is not a push and renders while the browser is on an
   entry whose state has no restorationId leaves the current id and the
   history as they are (pop() writes nothing); its scroll() restores the
   offset stored under that unchanged id, and the save() of the next visit
   started on such an entry stores the offset under that same id. *)

C38_PopWithoutRestorationId ==
  [][/\ \A v \in Ended :
          (~v.pushState /\ Rendered(effects', "true") /\ RidOf(history[idx]) = {})
          => /\ Called(effects', "pop")
             /\ currentId' = currentId /\ history' = history /\ idx' = idx
             /\ (currentId \in DOMAIN positions /\ ~FragmentIn(FinalUrl(effects'), docIds'))
                  => /\ ScrollCalls(effects') =
                          <<Call("scrollTo", RegionName, positions[currentId].x,
                                 positions[currentId].y, <<>>)>>
                     /\ regionPos' = positions[currentId]
     /\ \A v \in Started :
          RidOf(history'[idx']) = {}
          => /\ currentId' = currentId /\ history' = history
             /\ DOMAIN positions' = DOMAIN positions \cup {currentId}
             /\ positions'[currentId] = regionPos]_vars

\* A visit rendered on the entry the fragment navigation added: the id of the
\* entry before is still the current one and its offset (1, 2) was restored
C38_Witness ==
  /\ Called(effects, "pop") /\ Rendered(effects, "true")
  /\ idx > 1 /\ history[idx].state = Null
  /\ RidOf(history[idx - 1]) = {currentId}
  /\ ScrollCalls(effects) = <<Call("scrollTo", RegionName, 1, 2, <<>>)>>

----------------------------------------------------------------------------
(* C39: under a mounted RouterProvider, loading is true from a visit's
   nav:started on for as long as at least one visit is in flight: it is true
   once a visit has started, and a step that leaves a visit in flight does not
   make it false, also when two visits overlap. *)

C39_LoadingWhileInFlight ==
  [][Has(listeners["nav:started"], "start")
       => /\ Started # {} => loading'
          /\ (loading /\ inflight' # {}) => loading']_vars

(* C40: once every visit in flight has ended, each of them rendered, the
   content on the page (the body of the visit that rendered last, fetched
   without a redirect) is the response fetched for the URL of the browser's
   current history entry, and the current id is that entry's restorationId,
   however push visits and back/forward visits overlapped. *)

C40_ContentMatchesEntry ==
  [][\A v \in Ended :
       (/\ inflight' = {} /\ Rendered(effects', "true")
        /\ EntryOf(effects', "response").arg = "direct")
       => /\ pathAndSearch(v.input) = pathAndSearch(history'[idx'].url)
          /\ RidOf(history'[idx']) = {currentId'}]_vars

----------------------------------------------------------------------------
(* C34: Mercure.subscribe() called while a connection exists (the EventSource
   held is connecting or open) first closes that EventSource and emits
   sse:disconnected for it, once, and only then makes the new one; an
   EventSource that is no longer the one held is closed and nothing more is
   emitted for it, so at most one EventSource is open or connecting at any
   time.  After close(), url is null and connected is false. *)

Live(m) == {i \in 1..Len(m.sources) : m.sources[i].readyState # "closed"}

C34_OneEventSource ==
  [][/\ Live(mercure') \subseteq {mercure'.eventSource}
     /\ \A i \in 1..Len(mercure.sources) :
          i # mercure.eventSource => mercure'.sources[i] = mercure.sources[i]
     /\ (effects' # <<>> /\ effects'[1].op = "subscribe" /\ Live(mercure) # {})
          => /\ Len(effects') >= 3
             /\ effects'[2] = Call("close", "", mercure.eventSource, 0, <<>>)
             /\ effects'[3] = Emit("sse:disconnected", mercure.currentUrl)
             /\ \A i \in 4..Len(effects') : effects'[i].op \in {"EventSource", "throw"}
             /\ mercure'.sources[mercure.eventSource].readyState = "closed"
             /\ mercure'.sources[mercure.eventSource].disconnected = 1
             /\ mercure'.eventSource # mercure.eventSource
     /\ (effects' # <<>> /\ effects'[1].op = "closeConnection")
          => mercure'.currentUrl = <<>> /\ ~connected(mercure')]_vars

\* A second subscribe() has replaced an open connection: the first EventSource
\* is closed with one sse:disconnected, the second is the one held
C34_Witness ==
  /\ effects # <<>> /\ effects[1].op = "subscribe"
  /\ Emitted(effects, "sse:disconnected") /\ Called(effects, "EventSource")
  /\ mercure.eventSource = 2
  /\ mercure.sources[1].readyState = "closed" /\ mercure.sources[1].disconnected = 1
  /\ mercure.sources[2].readyState = "connecting"

====
